---- MODULE Spec2Model ----
(***************************************************************************)
(* The identity-indexed columnar storage of starsim/stisim.                *)
(*                                                                         *)
(*   Spec      the population coordinator DynamicPeople of                 *)
(*             src/removing_people.py (initialize, grow, remove) over the  *)
(*             columns handed to its constructor.  A column is a State of  *)
(*             src/removing_people.py (1-D, or 2-D with the agent axis     *)
(*             last) or a State of src/starsim/states.py (a FusedArray     *)
(*             over a DynamicView).                                        *)
(*   SpecZ     the same coordinator over a list of states that holds a     *)
(*             State with a callable fill_value, whose grow can raise.     *)
(*   SpecMod   the same coordinator with the calls a module can make:      *)
(*             State.initialize on a population that has agents, a         *)
(*             state's own grow, and an assignment to an attribute.        *)
(*   SpecPpl   the People of src/stisim/people.py: _grow and add_module    *)
(*             over the dictionary of backing arrays _data.                *)
(*   SpecView  one DynamicView of src/starsim/states.py: grow, _trim and   *)
(*             writes through the view, up to MaxView entries.             *)
(*   SpecOps   the coordinator over two starsim States s and t, with the   *)
(*             elementwise operations of FusedArray.__array_ufunc__.       *)
(*   SpecSim   the Sim of src/stisim/sim.py: initialize, step, run and     *)
(*             finalize over a People.                                     *)
(*   SpecDist  the distribution sampler of src/tests/test_distributions.py *)
(*             (reset, rvs by count, rvs by identifiers).                  *)
(*   SpecSIR   the SIR module of src/stisim/diseases/examples.py: the      *)
(*             initial cases, then update_pre and make_new_cases at every  *)
(*             time step over one contact layer.                           *)
(*   SpecSyph  the Syphilis module of src/starsim/diseases/syphilis.py:    *)
(*             update_pre and the prognoses of the stages at every time    *)
(*             step, with new infections handed to set_prognoses.          *)
(*                                                                         *)
(* Arrays are sequences; numpy position p is element p + 1.                *)
(***************************************************************************)
EXTENDS Integers, Sequences, FiniteSets, TLC

\* ------------------------------------------------------------------ bounds
\* identifiers ever issued by one population
MaxUids == 3
\* initialize(k), k in 0..MaxInit
MaxInit == 2
\* grow(n), n in 0..MaxGrow
MaxGrow == 2
\* length of the identifier array handed to remove
MaxReq == 2
\* values written by a set are 0..MaxVal
MaxVal == 1
\* People(n), n in 0..MaxPplInit; agents of one People
MaxPplInit == 3
\* entries of the view of one DynamicView
MaxView == 6
\* time points of a Sim: npts in 1..MaxNpts
MaxNpts == 3
\* random numbers of one stream, and slots of a sampler
MaxDraw == 4
MaxPpl == 6
\* agents a column may be ahead of the population after direct grows
MaxExtra == 1
\* agents of the population a disease module runs on
SirAgents == 3
\* contacts of the layer at one time step
MaxContacts == 2
\* time points of the sim a disease module runs in
SirNpts == 3
\* a duration of infection, in time steps: 1..MaxDurInf
MaxDurInf == 2
\* agents of the population the Syphilis module runs on
SyphAgents == 2
\* time points of the sim the Syphilis module runs in
SyphNpts == 3
\* a duration of a stage, in time steps (rr(dur / sim.dt)): 0..MaxDur
MaxDur == 1

\* ------------------------------------------------------- program constants
\* np.iinfo(int).max, the flag of a removed UID (here the largest integer of
\* the checker's arithmetic; no array of the model is that long)
INT_NAN == 2147483647
\* x = State('foo', int, 0); y = State('imm', float, 0, shape=2)
ProtoFill == 0
YShape == 2
\* DynamicView(dtype): fill_value = dtype()
ViewFill == 0
\* fill_value of the second starsim State, State('t', int, 0)
TFill == 0
\* a starsim State declared with a fill value of its own, State(name, int, 1)
StarFill == 1
\* z = State('bar', int, lambda n: np.random.randint(1,3,n)): a fill_value
\* that is called with a number of samples and hands back that many values
\* (randint(1, 3) draws 1 or 2); the callable of the model hands back n
\* times this one
ZFill == 2

VARIABLES
    initialized,   \* DynamicPeople: initialize has run
    uid_map,       \* DynamicPeople._uid_map, a State indexed by position
    uids,          \* DynamicPeople.uids, a State indexed by UID
    states,        \* name -> State, the columns of the population
    last,          \* the last call on the population and its arguments
    live,          \* history: the identifiers of the agents that exist
    ever,          \* history: every identifier handed to an agent so far
    gone,          \* history: the identifiers a remove has taken away
    ppl,           \* the stisim People: _n, _s, _data, states
    sim,           \* the stisim Sim: ti, npts, complete, results_ready
    dist,          \* the distribution sampler: its stream and position
    mod            \* a disease module (SIR, Syphilis): its states and results

vars == <<initialized, uid_map, uids, states, last, live, ever, gone, ppl,
          sim, dist, mod>>

\* no Sim, no sampler and no disease module has been constructed
NoSim == [built |-> FALSE]
NoDist == [built |-> FALSE]
NoMod == [built |-> FALSE]

\* ----------------------------------------------------------------- numpy
Max(a, b) == IF a >= b THEN a ELSE b
Min(a, b) == IF a <= b THEN a ELSE b
Range(q) == {q[i] : i \in 1..Len(q)}

\* np.full(k, fill_value=v)
Full(k, v) == [i \in 1..k |-> v]
\* np.arange(a, b)
Arange(a, b) == [i \in 1..Max(b - a, 0) |-> a + i - 1]
\* a[:k]: a slice is clamped to the array
Head_(a, k) == SubSeq(a, 1, Min(k, Len(a)))

\* a[i] for an integer i: negative i counts from the end, anything else out
\* of range is an IndexError
InRange(a, i) == i >= -Len(a) /\ i < Len(a)
Pos(a, i) == IF i >= 0 THEN i + 1 ELSE Len(a) + i + 1
Ok(v) == [err |-> "none", v |-> v]
IndexError == [err |-> "IndexError", v |-> 0]
\* what a call hands back: None (no return statement) or an array
None == [none |-> TRUE, v |-> <<>>]
Returned(v) == [none |-> FALSE, v |-> v]
NpGet(a, i) == IF InRange(a, i) THEN Ok(a[Pos(a, i)]) ELSE IndexError
\* a[inds] for an integer array inds (a copy), every index in range
NpTake(a, inds) == [i \in 1..Len(inds) |-> a[Pos(a, inds[i])]]
\* a[:k] = b, with len(b) = k <= len(a)
NpPutHead(a, b) == [i \in 1..Len(a) |-> IF i <= Len(b) THEN b[i] ELSE a[i]]
\* a[inds] = b, elementwise, every index in range and no index repeated
NpPut(a, inds, b) ==
    [i \in 1..Len(a) |->
        IF \E j \in 1..Len(inds) : Pos(a, inds[j]) = i
        THEN b[CHOOSE j \in 1..Len(inds) : Pos(a, inds[j]) = i]
        ELSE a[i]]
\* ~np.in1d(a, b) applied to a
NotIn1d(a, b) == SelectSeq(a, LAMBDA e : e \notin Range(b))

\* --------------------------------------- State of src/removing_people.py
\* A State is [kind, n, data, fill_value]: data holds one row (1-D) or
\* `shape` rows (2-D), each of the capacity _s; n agents are in use.
ProtoState(rows, fill) ==
    [kind |-> "proto", n |-> 0, data |-> [r \in 1..rows |-> <<>>],
     fill_value |-> fill, initialized |-> FALSE]

\* a State whose fill_value is callable: fill_value(n) is np.full(n, v)
ProtoStateCallable(rows, v) ==
    [kind |-> "proto", n |-> 0, data |-> [r \in 1..rows |-> <<>>],
     fill_value |-> v, initialized |-> FALSE, callable |-> TRUE]
IsCallable(st) == "callable" \in DOMAIN st

\* State._s: the size of the underlying array along the agent axis
Cap(st) == Len(st.data[1])

\* State._map_arrays: values = _data[:n], or _data[:, :n]
Values(st) == [r \in 1..Len(st.data) |-> Head_(st.data[r], st.n)]

\* State.initialize(uid_map=..., uids=...): n = len(uid_map), _data = np.full
ProtoInitialize(st, k) ==
    [st EXCEPT !.n = k,
               !.data = [r \in 1..Len(st.data) |-> Full(k, st.fill_value)],
               !.initialized = TRUE]

\* State.grow(n): reallocate by max(n, int(_s / 2)) when n + self.n > _s; the
\* new block is np.full(fill_value); positions below _s keep what they hold
ProtoGrow(st, k) ==
    LET n_new == Max(k, Cap(st) \div 2)
        data  == IF st.n + k > Cap(st)
                 THEN [r \in 1..Len(st.data) |->
                          st.data[r] \o Full(n_new, st.fill_value)]
                 ELSE st.data
    IN  [st EXCEPT !.n = st.n + k, !.data = data]

\* State.grow(n) with a callable fill_value: the new block of n_new columns
\* is assigned fill_value(self.n), an array of self.n values; numpy raises a
\* ValueError unless that broadcasts (self.n = n_new or self.n = 1)
ProtoGrowRaises(st, k) ==
    /\ st.kind = "proto"
    /\ IsCallable(st)
    /\ st.n + k > Cap(st)
    /\ st.n \notin {Max(k, Cap(st) \div 2), 1}

\* State._trim(inds): _data[:n] = _data[inds] with n = len(inds); the rest of
\* the buffer is left as it is
ProtoTrim(st, inds) ==
    [st EXCEPT !.n = Len(inds),
               !.data = [r \in 1..Len(st.data) |->
                            NpPutHead(st.data[r], NpTake(st.data[r], inds))]]

\* ------------------------------------------ src/starsim/states.py
\* State.__init__: _data = DynamicView(dtype), empty, with fill dtype()
StarState(fill) ==
    [kind |-> "star", n |-> 0, data |-> << <<>> >>,
     fill_value |-> fill, initialized |-> FALSE]

\* the count grows by one more than asked for
ViewGrow_OneMore(st, k) == [st EXCEPT !.n = st.n + k + 1]

\* the buffer is enlarged by the request only, without the 50% minimum
ViewGrow_NoHalf(st, k) ==
    LET data == IF st.n + k > Cap(st)
                THEN << st.data[1] \o Full(k, ViewFill) >>
                ELSE st.data
    IN  [st EXCEPT !.n = st.n + k, !.data = data]

\* DynamicView.grow(n)
ViewGrow(st, k) ==
    LET n_new == Max(k, Cap(st) \div 2)
        data  == IF st.n + k > Cap(st)
                 THEN << st.data[1] \o Full(n_new, ViewFill) >>
                 ELSE st.data
    IN  [st EXCEPT !.n = st.n + k, !.data = data]

\* DynamicView._trim(inds): _data[:n] = _data[inds];
\* _data[n:self.n] = fill_value; self.n = n
ViewTrim(st, inds) ==
    LET n    == Len(inds)
        kept == NpPutHead(st.data[1], NpTake(st.data[1], inds))
    IN  [st EXCEPT !.n = n,
                   !.data = << [i \in 1..Len(kept) |->
                                  IF i > n /\ i <= st.n THEN ViewFill
                                  ELSE kept[i]] >>]

\* DynamicView.__setitem__(slice(-k, None), v) on the view of length n:
\* the slice -k: starts at max(n - k, 0), and -0: is the whole view
ViewSetTail(st, k, v) ==
    LET start == IF k = 0 THEN 0 ELSE Max(st.n - k, 0)
    IN  [st EXCEPT !.data = << [i \in 1..Len(st.data[1]) |->
                                  IF i > start /\ i <= st.n THEN v
                                  ELSE st.data[1][i]] >>]

\* State._new_vals(uids) for a scalar fill_value
NewVals(st, new_uids) == st.fill_value

\* the view is grown and marked initialized, the fill value is not written
StarInitialize_NoFill(st, k) ==
    IF st.initialized THEN st ELSE [ViewGrow(st, k) EXCEPT !.initialized = TRUE]

\* State.initialize(people): nothing when already initialized; else
\* _data.grow(len(uid)); _data[:len(uid)] = _new_vals(uid)
StarInitialize(st, k) ==
    IF st.initialized THEN st
    ELSE LET g == ViewGrow(st, k)
         IN  [g EXCEPT !.data = << [i \in 1..Len(g.data[1]) |->
                                     IF i <= k THEN NewVals(st, Arange(0, k))
                                     ELSE g.data[1][i]] >>,
                       !.initialized = TRUE]

\* State.grow(uids): n = len(uids); _data.grow(n); _data[-n:] = _new_vals(uids)
StarGrow(st, new_uids) ==
    ViewSetTail(ViewGrow(st, Len(new_uids)), Len(new_uids), NewVals(st, new_uids))

\* State._trim(inds)
StarTrim(st, inds) == ViewTrim(st, inds)

\* ------------------------------------------------ a column of either kind
ColInitialize(st, k) ==
    IF st.kind = "proto" THEN ProtoInitialize(st, k) ELSE StarInitialize(st, k)
ColGrow(st, k, new_uids) ==
    IF st.kind = "proto" THEN ProtoGrow(st, k) ELSE StarGrow(st, new_uids)
ColTrim_NoCompact(st, inds) == [st EXCEPT !.n = Len(inds)]
ColTrim(st, inds) ==
    IF st.kind = "proto" THEN ProtoTrim(st, inds) ELSE StarTrim(st, inds)

\* ------------------------------------ DynamicPeople, src/removing_people.py
\* the columns a population can be built over (DynamicPeople(states=[...]))
Column(c) ==
    CASE c = "x" -> ProtoState(1, ProtoFill)
      [] c = "y" -> ProtoState(YShape, ProtoFill)
      [] c = "s" -> StarState(StarFill)
      [] c = "z" -> ProtoStateCallable(1, ZFill)
      [] c = "t" -> StarState(TFill)
\* the place of a column in the list of states the population loops over
StateOrder(c) == CASE c = "x" -> 1 [] c = "y" -> 2 [] c = "z" -> 3 [] c = "s" -> 4
                   [] c = "t" -> 5
StateLists == {{"x"}, {"y"}, {"s"}, {"x", "s"}}

\* len(people), len(people._uid_map)
Count == uids.n
Issued == uid_map.n
LiveUids == Range(Values(uids)[1])

\* _uid_map[key]: the map is indexed by position (its own _uid_map is None)
Lookup(um, key) == NpGet(Values(um)[1], key)

\* State.__getitem__ / FusedArray.__getitem__ with an integer key, on row g:
\* values[_uid_map[key]] (2-D: values[g, _uid_map[key]])
Get(st, um, g, key) ==
    LET idx == Lookup(um, key)
    IN  IF idx.err # "none" THEN IndexError
        ELSE NpGet(Values(st)[g + 1], idx.v)

\* State.__setitem__ / FusedArray.__setitem__ with an integer key: the write
\* goes through the view to the buffer; an IndexError leaves the State as is
SetItem(st, um, g, key, v) ==
    IF Get(st, um, g, key).err # "none" THEN [err |-> "IndexError", st |-> st]
    ELSE LET row == Values(st)[g + 1]
             p   == Pos(row, Lookup(um, key).v)
         IN  [err |-> "none", st |-> [st EXCEPT !.data[g + 1][p] = v]]

\* what numba's unchecked indexing does outside the array is not defined
Unchecked == [err |-> "unchecked", v |-> 0]

\* State.__getitem__ of src/removing_people.py with an array of UIDs:
\* values[_uid_map[key]], each a numpy fancy index (checked, then copied)
ProtoGetUids(st, um, g, keys) ==
    LET umap == Values(um)[1]
        row  == Values(st)[g + 1]
    IN  IF \E i \in 1..Len(keys) : ~InRange(umap, keys[i]) THEN IndexError
        ELSE IF \E i \in 1..Len(keys) : ~InRange(row, NpTake(umap, keys)[i])
        THEN IndexError
        ELSE Ok(NpTake(row, NpTake(umap, keys)))

\* FusedArray._get_vals_uids (numba): the loop from key[i - 1] on; the map is
\* read without a bounds check, idx == INT_NAN raises IndexError
RECURSIVE GetValsUids(_, _, _, _)
GetValsUids(vals, keys, umap, i) ==
    IF i > Len(keys) THEN Ok(<<>>)
    ELSE IF ~InRange(umap, keys[i]) THEN Unchecked
    ELSE LET idx == umap[Pos(umap, keys[i])]
         IN  IF idx = INT_NAN THEN IndexError
             ELSE IF ~InRange(vals, idx) THEN Unchecked
             ELSE LET rest == GetValsUids(vals, keys, umap, i + 1)
                  IN  IF rest.err # "none" THEN rest
                      ELSE Ok(<< vals[Pos(vals, idx)] >> \o rest.v)

\* a get with an array (or list) of UIDs on row g of a column
GetUids(st, um, g, keys) ==
    IF st.kind = "proto" THEN ProtoGetUids(st, um, g, keys)
    ELSE GetValsUids(Values(st)[1], keys, Values(um)[1], 1)

\* State.__setitem__ of src/removing_people.py with an array of UIDs and a
\* scalar value: values[_uid_map[key]] = value; numpy checks every index
\* before it writes
ProtoSetUids(st, um, g, keys, v) ==
    IF ProtoGetUids(st, um, g, keys).err # "none"
    THEN [err |-> "IndexError", st |-> st]
    ELSE LET umap == Values(um)[1]
             row  == Values(st)[g + 1]
             ps   == {Pos(row, NpTake(umap, keys)[i]) : i \in 1..Len(keys)}
         IN  [err |-> "none",
              st |-> [st EXCEPT !.data[g + 1] =
                         [i \in 1..Len(@) |-> IF i \in ps THEN v ELSE @[i]]]]

\* the value is written to every agent, whatever the key
SetValsUidsSingle_All(data, n, keys, umap, v, i) ==
    [err |-> "none", data |-> [p \in 1..Len(data) |-> IF p <= n THEN v ELSE data[p]]]

\* FusedArray._set_vals_uids_single (numba): the loop from key[i - 1] on, on
\* the buffer row `data` whose first n entries are the values
RECURSIVE SetValsUidsSingle(_, _, _, _, _, _)
SetValsUidsSingle(data, n, keys, umap, v, i) ==
    IF i > Len(keys) THEN [err |-> "none", data |-> data]
    ELSE IF keys[i] >= Len(umap) THEN [err |-> "IndexError", data |-> data]
    ELSE IF keys[i] < -Len(umap) THEN [err |-> "unchecked", data |-> data]
    ELSE LET idx == umap[Pos(umap, keys[i])]
         IN  IF idx = INT_NAN THEN [err |-> "IndexError", data |-> data]
             ELSE IF idx >= n THEN [err |-> "Exception", data |-> data]
             ELSE IF idx < -n THEN [err |-> "unchecked", data |-> data]
             ELSE SetValsUidsSingle(
                      [data EXCEPT ![IF idx >= 0 THEN idx + 1 ELSE n + idx + 1] = v],
                      n, keys, umap, v, i + 1)

\* a set of one value with an array (or list) of UIDs on row g of a column
SetUids(st, um, g, keys, v) ==
    IF st.kind = "proto" THEN ProtoSetUids(st, um, g, keys, v)
    ELSE LET r == SetValsUidsSingle(st.data[1], Min(st.n, Len(st.data[1])),
                                    keys, Values(um)[1], v, 1)
         IN  [err |-> r.err, st |-> [st EXCEPT !.data = << r.data >>]]

\* FusedArray._set_vals_uids_multiple (numba): the loop from key[i - 1] on;
\* value[i] is read without a bounds check, and what is left of a longer
\* value is never looked at
RECURSIVE SetValsUidsMultiple(_, _, _, _, _, _)
SetValsUidsMultiple(data, n, keys, umap, value, i) ==
    IF i > Len(keys) THEN [err |-> "none", data |-> data]
    ELSE IF keys[i] >= Len(umap) THEN [err |-> "IndexError", data |-> data]
    ELSE IF keys[i] < -Len(umap) THEN [err |-> "unchecked", data |-> data]
    ELSE LET idx == umap[Pos(umap, keys[i])]
         IN  IF idx = INT_NAN THEN [err |-> "IndexError", data |-> data]
             ELSE IF idx >= n THEN [err |-> "Exception", data |-> data]
             ELSE IF idx < -n THEN [err |-> "unchecked", data |-> data]
             ELSE IF i > Len(value) THEN [err |-> "unchecked", data |-> data]
             ELSE SetValsUidsMultiple(
                      [data EXCEPT ![IF idx >= 0 THEN idx + 1 ELSE n + idx + 1]
                                       = value[i]],
                      n, keys, umap, value, i + 1)

\* FusedArray.__setitem__ with an array (or list) of UIDs and an array of
\* values, on a starsim State
SetUidsMultiple(st, um, keys, value) ==
    LET r == SetValsUidsMultiple(st.data[1], Min(st.n, Len(st.data[1])),
                                 keys, Values(um)[1], value, 1)
    IN  [err |-> r.err, st |-> [st EXCEPT !.data = << r.data >>]]

\* key.__array__().nonzero()[0]: the positions where a boolean array is True
Nonzero(mask) ==
    LET RECURSIVE nz(_)
        nz(i) == IF i > Len(mask) THEN <<>>
                 ELSE (IF mask[i] THEN << i - 1 >> ELSE <<>>) \o nz(i + 1)
    IN  nz(1)

\* a[inds] for an array of positions: numpy checks every index first
NpTakeChecked(a, inds) ==
    IF \E i \in 1..Len(inds) : ~InRange(a, inds[i]) THEN IndexError
    ELSE Ok(NpTake(a, inds))

\* FusedArray.__getitem__ with a boolean array: the mask becomes positions,
\* which index the uid array and then the values
GetMask(st, ud, mask) ==
    LET mapped_key == Nonzero(mask)
    IN  IF NpTakeChecked(Values(ud)[1], mapped_key).err # "none" THEN IndexError
        ELSE NpTakeChecked(Values(st)[1], mapped_key)

\* FusedArray.__setitem__ with a boolean array and a scalar value:
\* values[key.nonzero()[0]] = value
SetMask(st, mask, v) ==
    LET mapped_key == Nonzero(mask)
        row == Values(st)[1]
    IN  IF NpTakeChecked(row, mapped_key).err # "none"
        THEN [err |-> "IndexError", st |-> st]
        ELSE [err |-> "none",
              st |-> [st EXCEPT !.data[1] =
                         [i \in 1..Len(@) |->
                             IF (i - 1) \in Range(mapped_key) THEN v ELSE @[i]]]]

\* A slice is [start, stop, step], each << >> for None or << i >> for i >= 0.
\* a[start:stop:step] selects the positions start, start + step, ... below
\* stop, both bounds clamped to the array
Slice(start, stop, step) == [start |-> start, stop |-> stop, step |-> step]
FullSlice == Slice(<<>>, <<>>, <<>>)
SlicePositions(len, sl) ==
    LET lo == IF sl.start = <<>> THEN 0 ELSE Min(sl.start[1], len)
        hi == IF sl.stop = <<>> THEN len ELSE Min(sl.stop[1], len)
        st == IF sl.step = <<>> THEN 1 ELSE sl.step[1]
    IN  SelectSeq([i \in 1..len |-> i - 1],
                  LAMBDA p : p >= lo /\ p < hi /\ (p - lo) % st = 0)

\* State._map_slice of src/removing_people.py: start and stop go through
\* the identity map, the step stays
ProtoMapSlice(um, sl) ==
    LET start == IF sl.start = <<>> THEN Ok(<<>>)
                 ELSE LET r == Lookup(um, sl.start[1])
                      IN  IF r.err # "none" THEN r ELSE Ok(<< r.v >>)
        stop  == IF sl.stop = <<>> THEN Ok(<<>>)
                 ELSE LET r == Lookup(um, sl.stop[1])
                      IN  IF r.err # "none" THEN r ELSE Ok(<< r.v >>)
    IN  IF start.err # "none" \/ stop.err # "none" THEN IndexError
        ELSE Ok(Slice(start.v, stop.v, sl.step))

\* x[sl], y[g, sl]: State.__getitem__ of src/removing_people.py slices the
\* values with the mapped slice; FusedArray.__getitem__ returns a copy for
\* the full slice and raises an Exception for any other
GetSlice(st, um, g, sl) ==
    IF st.kind = "proto"
    THEN LET msl == ProtoMapSlice(um, sl)
             row == Values(st)[g + 1]
         IN  IF msl.err # "none" THEN IndexError
             ELSE Ok([i \in 1..Len(SlicePositions(Len(row), msl.v)) |->
                        row[SlicePositions(Len(row), msl.v)[i] + 1]])
    ELSE IF sl = FullSlice THEN Ok(Values(st)[1])
    ELSE [err |-> "Exception", v |-> 0]

\* x[sl] = v on a 1-D State: values[mapped slice] = v for a State of
\* src/removing_people.py; FusedArray.__setitem__ writes all the values for
\* the full slice and raises an Exception for any other
SetSlice(st, um, sl, v) ==
    IF st.kind = "proto"
    THEN LET msl == ProtoMapSlice(um, sl)
             row == Values(st)[1]
         IN  IF msl.err # "none" THEN [err |-> "IndexError", st |-> st]
             ELSE [err |-> "none",
                   st |-> [st EXCEPT !.data[1] =
                              [i \in 1..Len(@) |->
                                  IF i <= Len(row) /\
                                     (i - 1) \in Range(SlicePositions(Len(row), msl.v))
                                  THEN v ELSE @[i]]]]
    ELSE IF sl = FullSlice
    THEN [err |-> "none",
          st |-> [st EXCEPT !.data[1] =
                     [i \in 1..Len(@) |-> IF i <= st.n THEN v ELSE @[i]]]]
    ELSE [err |-> "Exception", st |-> st]

\* y[g, sl] = v on a 2-D State of src/removing_people.py: __setitem__ keeps
\* only the mapped slice of the key (new_key = self._map_slice(key[1])), so
\* values[new_key] = v slices the leading axis and writes whole rows
ProtoSetSlice2D(st, um, g, sl, v) ==
    LET msl  == ProtoMapSlice(um, sl)
        rows == Range(SlicePositions(Len(st.data), msl.v))
    IN  IF msl.err # "none" THEN [err |-> "IndexError", st |-> st]
        ELSE [err |-> "none",
              st |-> [st EXCEPT !.data =
                         [r \in 1..Len(@) |->
                             [i \in 1..Len(@[r]) |->
                                 IF (r - 1) \in rows /\ i <= st.n THEN v
                                 ELSE @[r][i]]]]]

\* the entries a grow has appended to an array
NewAgents(old, new) == SubSeq(new, Len(old) + 1, Len(new))

Init ==
    /\ initialized = FALSE
    /\ uid_map = ProtoState(1, ProtoFill)
    /\ uids = ProtoState(1, ProtoFill)
    /\ \E cs \in StateLists : states = [c \in cs |-> Column(c)]
    /\ last = [op |-> "new", n |-> 0, uids |-> <<>>, ret |-> None, err |-> "none"]
    /\ live = {}
    /\ ever = {}
    /\ gone = {}
    /\ sim = NoSim
    /\ dist = NoDist
    /\ mod = NoMod
    /\ ppl = [built |-> FALSE]

\* DynamicPeople.initialize(n)
InitializeResult(k) ==
    LET um == [ProtoInitialize(uid_map, k) EXCEPT !.data = << Arange(0, k) >>]
        ud == [ProtoInitialize(uids, um.n) EXCEPT !.data = << Arange(0, um.n) >>]
    IN  [uid_map |-> um, uids |-> ud,
         states |-> [c \in DOMAIN states |-> ColInitialize(states[c], um.n)]]

Initialize(k) ==
    /\ ~initialized
    /\ initialized' = TRUE
    /\ LET r == InitializeResult(k)
       IN  uid_map' = r.uid_map /\ uids' = r.uids /\ states' = r.states
    /\ live' = Range(Values(uids')[1])
    /\ ever' = live'
    /\ gone' = {}
    /\ last' = [op |-> "initialize", n |-> k, uids |-> <<>>, ret |-> None, err |-> "none"]
    /\ UNCHANGED <<ppl, sim, dist, mod>>

\* the new identifiers start at the number of live agents
NewUids_FromCount(k) == Arange(Count, Count + k)

\* DynamicPeople.grow(n): new_uids = np.arange(start_uid, start_uid + n) with
\* start_uid = len(self._uid_map)
NewUids(k) == Arange(Issued, Issued + k)
\* new_inds = np.arange(start_idx, start_idx + n), start_idx = len(self.uids)
NewInds(k) == Arange(Count, Count + k)

\* the columns whose grow raises in a grow(n) of the population, and the
\* columns the loop has grown before it reaches the first of them
GrowRaisesAt(k) == {c \in DOMAIN states : ProtoGrowRaises(states[c], k)}
GrownBeforeError(c, k) == \A d \in GrowRaisesAt(k) : StateOrder(c) < StateOrder(d)

\* the grown map comes back with its sentinel entries set to the fill value
GrowResult_ClearsSentinel(k) ==
    LET new_uids == NewUids(k)
        new_inds == NewInds(k)
        um0 == ProtoGrow(uid_map, k)
        um  == [um0 EXCEPT !.data = << NpPut(um0.data[1], new_uids, new_inds) >>]
        ud0 == ProtoGrow(uids, k)
        ud  == [ud0 EXCEPT !.data =
                   << NpPut(ud0.data[1], NpTake(Values(um)[1], new_uids), new_uids) >>]
    IN  [uid_map |-> [um EXCEPT !.data =
                        << [i \in 1..Len(um.data[1]) |->
                              IF um.data[1][i] = INT_NAN THEN ProtoFill
                              ELSE um.data[1][i]] >>],
         uids |-> ud,
         states |-> [c \in DOMAIN states |->
                        IF GrownBeforeError(c, k)
                        THEN ColGrow(states[c], k, new_uids) ELSE states[c]],
         err |-> IF GrowRaisesAt(k) = {} THEN "none" ELSE "ValueError"]

\* DynamicPeople.grow(n): an exception of a state's grow leaves the map, the
\* uid column and the states before it grown
GrowResult(k) ==
    LET new_uids == NewUids(k)
        new_inds == NewInds(k)
        um0 == ProtoGrow(uid_map, k)
        um  == [um0 EXCEPT !.data = << NpPut(um0.data[1], new_uids, new_inds) >>]
        ud0 == ProtoGrow(uids, k)
        ud  == [ud0 EXCEPT !.data =
                   << NpPut(ud0.data[1], NpTake(Values(um)[1], new_uids), new_uids) >>]
    IN  [uid_map |-> um, uids |-> ud,
         states |-> [c \in DOMAIN states |->
                        IF GrownBeforeError(c, k)
                        THEN ColGrow(states[c], k, new_uids) ELSE states[c]],
         err |-> IF GrowRaisesAt(k) = {} THEN "none" ELSE "ValueError"]

Grow(k) ==
    /\ initialized
    /\ Issued + k <= MaxUids
    /\ LET r == GrowResult(k)
       IN  uid_map' = r.uid_map /\ uids' = r.uids /\ states' = r.states
    /\ live' = live \cup Range(NewAgents(Values(uids)[1], Values(uids')[1]))
    /\ ever' = ever \cup Range(NewAgents(Values(uids)[1], Values(uids')[1]))
    /\ gone' = gone
    /\ last' = [op |-> "grow", n |-> k, uids |-> <<>>, ret |-> None,
                err |-> GrowResult(k).err]
    /\ UNCHANGED <<initialized, ppl, sim, dist, mod>>

\* only the first identifier of the request is removed
RemainingUids_FirstOnly(req) ==
    NotIn1d(Values(uids)[1], IF req = << >> THEN << >> ELSE << req[1] >>)

\* the request is read as positions, not as identifiers
RemainingUids_ByPosition(req) ==
    LET u == Values(uids)[1]
        keep == {i \in 1..Len(u) : (i - 1) \notin Range(req)}
    IN  SelectSeq(u, LAMBDA e : \E i \in keep : u[i] = e)

\* every occurrence of an identifier in the request flips its keep flag
RemainingUids_Toggle(req) ==
    SelectSeq(Values(uids)[1],
              LAMBDA e : Cardinality({i \in 1..Len(req) : req[i] = e}) % 2 = 0)

\* remaining_uids = self.uids.values[~np.in1d(self.uids, uids)]
RemainingUids(req) == NotIn1d(Values(uids)[1], req)
\* keep_inds = self._uid_map[remaining_uids]
KeepInds(remaining_uids) == NpTake(Values(uid_map)[1], remaining_uids)
\* the map rebuilt with the survivors numbered from the last to the first
RebuildMap_Reversed(um, remaining_uids) ==
    LET um0 == [i \in 1..Len(um.data[1]) |->
                   IF i <= um.n THEN INT_NAN ELSE um.data[1][i]]
        k   == Len(remaining_uids)
    IN  [um EXCEPT !.data =
            << NpPut(um0, remaining_uids, [i \in 1..k |-> k - i]) >>]

\* the map rebuilt without the reset to INT_NAN
RebuildMap_NoReset(um, remaining_uids) ==
    [um EXCEPT !.data =
        << NpPut(um.data[1], remaining_uids, Arange(0, Len(remaining_uids))) >>]

\* the map rebuilt with the survivors' positions of before the compaction
RebuildMap_OldPositions(um, remaining_uids) ==
    LET um0 == [i \in 1..Len(um.data[1]) |->
                   IF i <= um.n THEN INT_NAN ELSE um.data[1][i]]
    IN  [um EXCEPT !.data =
            << NpPut(um0, remaining_uids, NpTake(Values(um)[1], remaining_uids)) >>]

\* self._uid_map[:] = INT_NAN;
\* self._uid_map[remaining_uids] = np.arange(0, len(remaining_uids))
RebuildMap(um, remaining_uids) ==
    LET um0 == [i \in 1..Len(um.data[1]) |->
                   IF i <= um.n THEN INT_NAN ELSE um.data[1][i]]
    IN  [um EXCEPT !.data =
            << NpPut(um0, remaining_uids, Arange(0, Len(remaining_uids))) >>]

\* DynamicPeople.remove(uids)
RemoveResult(req) ==
    LET remaining_uids == RemainingUids(req)
        keep_inds == KeepInds(remaining_uids)
    IN  [uid_map |-> RebuildMap(uid_map, remaining_uids),
         uids |-> ProtoTrim(uids, keep_inds),
         states |-> [c \in DOMAIN states |-> ColTrim(states[c], keep_inds)]]

Requests == UNION {[1..k -> 0..MaxUids] : k \in 0..MaxReq}

Remove(req) ==
    /\ initialized
    /\ LET r == RemoveResult(req)
       IN  uid_map' = r.uid_map /\ uids' = r.uids /\ states' = r.states
    /\ live' = live \ Range(req)
    /\ ever' = ever
    /\ gone' = gone \cup (Range(req) \cap live)
    /\ last' = [op |-> "remove", n |-> 0, uids |-> req, ret |-> None, err |-> "none"]
    /\ UNCHANGED <<initialized, ppl, sim, dist, mod>>

\* x[u] = v, y[g, u] = v: a module writes one agent's value
Set(c, g, u, v) ==
    /\ initialized
    /\ g < Len(states[c].data)
    /\ SetItem(states[c], uid_map, g, u, v).err = "none"
    /\ states' = [states EXCEPT ![c] = SetItem(@, uid_map, g, u, v).st]
    /\ last' = [op |-> "set", n |-> 0, uids |-> <<>>, ret |-> None, err |-> "none"]
    /\ UNCHANGED <<initialized, uid_map, uids, live, ever, gone, ppl, sim, dist, mod>>

Next ==
    \/ \E k \in 0..MaxInit : Initialize(k)
    \/ \E k \in 0..MaxGrow : Grow(k)
    \/ \E req \in Requests : Remove(req)
    \/ \E c \in DOMAIN states, g \in 0..(YShape - 1), u \in 0..(MaxUids - 1),
          v \in 0..MaxVal : Set(c, g, u, v)

Spec == Init /\ [][Next]_vars

\* ------------------------------- the population with a callable fill_value
\* DynamicPeople(states=[z]) and DynamicPeople(states=[x, z]); an exception
\* that leaves a call is not caught: the run ends there
StateListsZ == {{"z"}, {"x", "z"}}

InitZ ==
    /\ initialized = FALSE
    /\ uid_map = ProtoState(1, ProtoFill)
    /\ uids = ProtoState(1, ProtoFill)
    /\ \E cs \in StateListsZ : states = [c \in cs |-> Column(c)]
    /\ last = [op |-> "new", n |-> 0, uids |-> <<>>, ret |-> None, err |-> "none"]
    /\ live = {}
    /\ ever = {}
    /\ gone = {}
    /\ sim = NoSim
    /\ dist = NoDist
    /\ mod = NoMod
    /\ ppl = [built |-> FALSE]

Running == last.err = "none"

NextZ ==
    \/ \E k \in 0..MaxInit : Running /\ Initialize(k)
    \/ \E k \in 0..MaxGrow : Running /\ Grow(k)
    \/ \E req \in Requests : Running /\ Remove(req)
    \/ \E c \in DOMAIN states, g \in 0..(YShape - 1), u \in 0..(MaxUids - 1),
          v \in 0..MaxVal : Running /\ Set(c, g, u, v)

SpecZ == InitZ /\ [][NextZ]_vars

\* ------------------------------------- what a module does to a population
\* State.initialize(people) of src/starsim/states.py, called for a state
\* when the population has agents: the state joins the population's states
\* and is filled for len(people.uid) agents; nothing when it is initialized
RegisterState(c) ==
    /\ Running
    /\ initialized
    /\ states' = [d \in DOMAIN states \cup {c} |->
                     IF d # c THEN states[d]
                     ELSE StarInitialize(IF c \in DOMAIN states THEN states[c]
                                         ELSE Column(c), Count)]
    /\ last' = [op |-> "State.initialize", n |-> 0, uids |-> <<>>,
                ret |-> None, err |-> "none"]
    /\ UNCHANGED <<initialized, uid_map, uids, live, ever, gone, ppl, sim, dist, mod>>

\* state.grow(n) (state.grow(uids) for a starsim State) called on a column
\* of the population by a module, not by DynamicPeople.grow
DirectGrow(c, k) ==
    /\ Running
    /\ initialized
    /\ states[c].n + k <= Count + MaxExtra
    /\ states' = [states EXCEPT ![c] = IF ProtoGrowRaises(@, k) THEN @
                                       ELSE ColGrow(@, k, Arange(0, k))]
    /\ last' = [op |-> "State.grow", n |-> k, uids |-> <<>>, ret |-> None,
                err |-> IF ProtoGrowRaises(states[c], k) THEN "ValueError"
                        ELSE "none"]
    /\ UNCHANGED <<initialized, uid_map, uids, live, ever, gone, ppl, sim, dist, mod>>

\* DynamicPeople.__setattr__(attr, value): an Exception when the attribute
\* holds a State, else the attribute is set
StateAttrs == {"_uid_map", "uids"}
SetAttr(attr) ==
    /\ Running
    /\ last' = [op |-> "__setattr__", n |-> 0, uids |-> <<>>, ret |-> None,
                err |-> IF attr \in StateAttrs THEN "Exception" ELSE "none"]
    /\ UNCHANGED <<initialized, uid_map, uids, states, live, ever, gone, ppl, sim, dist, mod>>

\* DynamicPeople(states=[x]); modules register the starsim State s, write
\* values, and may call what the population does not stop them calling
InitMod ==
    /\ initialized = FALSE
    /\ uid_map = ProtoState(1, ProtoFill)
    /\ uids = ProtoState(1, ProtoFill)
    /\ states = [c \in {"x"} |-> Column(c)]
    /\ last = [op |-> "new", n |-> 0, uids |-> <<>>, ret |-> None, err |-> "none"]
    /\ live = {}
    /\ ever = {}
    /\ gone = {}
    /\ sim = NoSim
    /\ dist = NoDist
    /\ mod = NoMod
    /\ ppl = [built |-> FALSE]

NextMod ==
    \/ \E k \in 0..MaxInit : Running /\ Initialize(k)
    \/ \E k \in 0..MaxGrow : Running /\ Grow(k)
    \/ \E req \in Requests : Running /\ Remove(req)
    \/ \E c \in DOMAIN states, g \in 0..(YShape - 1), u \in 0..(MaxUids - 1),
          v \in 0..MaxVal : Running /\ Set(c, g, u, v)
    \/ RegisterState("s")
    \/ \E c \in DOMAIN states, k \in 0..MaxGrow : DirectGrow(c, k)
    \/ \E attr \in StateAttrs \cup {"pars"} : SetAttr(attr)

SpecMod == InitMod /\ [][NextMod]_vars

\* ------------------------------------------- People, src/stisim/people.py
\* fill_value of the states: base_states 'uid' and 'alive', and the states
\* of the modules sir (susceptible, infected) and ncd (at_risk)
PplFill(key) ==
    CASE key = "uid" -> 0
      [] key = "alive" -> 1
      [] key = "sir.susceptible" -> 1
      [] key = "sir.infected" -> 0
      [] key = "ncd.at_risk" -> 0
BaseStates == {"uid", "alive"}
ModuleStates(m) ==
    CASE m = "sir" -> {"sir.susceptible", "sir.infected"}
      [] m = "ncd" -> {"ncd.at_risk"}
Modules == {"sir", "ncd"}

\* State.new(n): np.full(n, fill_value)
PplNew(key, k) == Full(k, PplFill(key))

\* BasePeople._map_arrays: the attribute of state k is _data[k][:_n]
PplView(p, key) == Head_(p.data[key], p.n)

\* People.__init__(n): _s = _n = n, every state's array is state.new(n), and
\* people['uid'][:] = np.arange(n)
PplConstruct(n0) ==
    [built |-> TRUE, n |-> n0, s |-> n0, modules |-> {},
     data |-> [key \in BaseStates |->
                  IF key = "uid" THEN Arange(0, n0) ELSE PplNew(key, n0)]]

InitPpl ==
    /\ initialized = FALSE
    /\ uid_map = ProtoState(1, ProtoFill)
    /\ uids = ProtoState(1, ProtoFill)
    /\ states = [c \in {} |-> 0]
    /\ last = [op |-> "new", n |-> 0, uids |-> <<>>, ret |-> None, err |-> "none"]
    /\ \E n0 \in 0..MaxPplInit :
          /\ ppl = PplConstruct(n0)
          /\ live = 0..(n0 - 1)
          /\ ever = 0..(n0 - 1)
    /\ gone = {}
    /\ sim = NoSim
    /\ dist = NoDist
    /\ mod = NoMod

\* BasePeople._grow(n): reallocate every array by max(n, int(_s / 2)) when
\* _n + n > _s, then _n += n and remap; returns np.arange(orig_n, _n)
PplGrowResult(p, k) ==
    LET n_new == Max(k, p.s \div 2)
        grown == p.n + k > p.s
    IN  [p EXCEPT !.data = IF grown
                            THEN [key \in DOMAIN p.data |->
                                     p.data[key] \o PplNew(key, n_new)]
                            ELSE p.data,
                  !.s = IF grown THEN p.s + n_new ELSE p.s,
                  !.n = p.n + k]

PplGrow(k) ==
    /\ ppl.built
    /\ ppl.n + k <= MaxPpl
    /\ ppl' = PplGrowResult(ppl, k)
    /\ last' = [op |-> "_grow", n |-> k, uids |-> Arange(ppl.n, ppl.n + k),
                ret |-> Returned(Arange(ppl.n, ppl.n + k)), err |-> "none"]
    /\ live' = live \cup Range(last'.uids)
    /\ ever' = ever \cup Range(last'.uids)
    /\ UNCHANGED <<initialized, uid_map, uids, states, gone, sim, dist, mod>>

\* People.add_module(module): an Exception when the module is already there;
\* else every state of the module gets the array state.new(_n)
AddModuleResult(p, m) ==
    [p EXCEPT !.modules = p.modules \cup {m},
              !.data = [key \in DOMAIN p.data \cup ModuleStates(m) |->
                           IF key \in ModuleStates(m) THEN PplNew(key, p.n)
                           ELSE p.data[key]]]

AddModule(m) ==
    /\ ppl.built
    /\ m \notin ppl.modules
    /\ ppl' = AddModuleResult(ppl, m)
    /\ last' = [op |-> "add_module", n |-> 0, uids |-> <<>>, ret |-> None, err |-> "none"]
    /\ UNCHANGED <<initialized, uid_map, uids, states, live, ever, gone, sim, dist, mod>>

\* People.update_demographics: self.alive[self.ti_dead <= ti] = False, for
\* the agent at position i
Die(i) ==
    /\ ppl.built
    /\ i < Len(PplView(ppl, "alive"))
    /\ ppl' = [ppl EXCEPT !.data["alive"][i + 1] = 0]
    /\ last' = [op |-> "update_demographics", n |-> 0, uids |-> <<>>, ret |-> None, err |-> "none"]
    /\ UNCHANGED <<initialized, uid_map, uids, states, live, ever, gone, sim, dist, mod>>

NextPpl ==
    \/ \E k \in 0..MaxGrow : PplGrow(k)
    \/ \E m \in Modules : AddModule(m)
    \/ \E i \in 0..(MaxPpl - 1) : Die(i)

SpecPpl == InitPpl /\ [][NextPpl]_vars

\* ------------------------------- one DynamicView, src/starsim/states.py
\* DynamicView(dtype): n = 0, _data = np.empty(0); the view is states.s
InitView ==
    /\ initialized = FALSE
    /\ uid_map = ProtoState(1, ProtoFill)
    /\ uids = ProtoState(1, ProtoFill)
    /\ states = [c \in {"s"} |-> StarState(StarFill)]
    /\ last = [op |-> "new", n |-> 0, uids |-> <<>>, ret |-> None, err |-> "none"]
    /\ live = {}
    /\ ever = {}
    /\ gone = {}
    /\ sim = NoSim
    /\ dist = NoDist
    /\ mod = NoMod
    /\ ppl = [built |-> FALSE]

\* DynamicView.grow(k)
ViewGrowStep(k) ==
    /\ states["s"].n + k <= MaxView
    /\ states' = [states EXCEPT !["s"] = ViewGrow(states["s"], k)]
    /\ last' = [op |-> "DynamicView.grow", n |-> k, uids |-> <<>>,
                ret |-> None, err |-> "none"]
    /\ UNCHANGED <<initialized, uid_map, uids, live, ever, gone, ppl, sim, dist, mod>>

\* DynamicView._trim(inds), inds the positions a boolean mask keeps
ViewTrimStep(mask) ==
    /\ Len(mask) = states["s"].n
    /\ states' = [states EXCEPT !["s"] = ViewTrim(states["s"], Nonzero(mask))]
    /\ last' = [op |-> "DynamicView._trim", n |-> 0, uids |-> Nonzero(mask),
                ret |-> None, err |-> "none"]
    /\ UNCHANGED <<initialized, uid_map, uids, live, ever, gone, ppl, sim, dist, mod>>

\* DynamicView.__setitem__(i, v): _view.__setitem__(i, v), i in the view
ViewSetStep(i, v) ==
    /\ i < states["s"].n
    /\ states' = [states EXCEPT !["s"].data[1][i + 1] = v]
    /\ last' = [op |-> "DynamicView.__setitem__", n |-> 0, uids |-> << i >>,
                ret |-> None, err |-> "none"]
    /\ UNCHANGED <<initialized, uid_map, uids, live, ever, gone, ppl, sim, dist, mod>>

ViewMasks == UNION {[1..k -> BOOLEAN] : k \in 0..MaxView}

NextView ==
    \/ \E k \in 0..MaxGrow : ViewGrowStep(k)
    \/ \E mask \in ViewMasks : ViewTrimStep(mask)
    \/ \E i \in 0..(MaxView - 1) : \E v \in 0..MaxVal : ViewSetStep(i, v)

SpecView == InitView /\ [][NextView]_vars

\* ------------------------------- reductions, src/starsim/states.py
\* the reduction runs over the whole buffer _data
ReduceValues_Buffer(st) == st.data[1]

\* self.values of a State: the view _data._view bound by initialize, grow
\* and _trim
ReduceValues(st) == Values(st)[1]

RECURSIVE SeqSum(_)
SeqSum(a) == IF a = <<>> THEN 0 ELSE Head(a) + SeqSum(Tail(a))
\* FusedArray.sum, any, all, count_nonzero
FusedSum(st) == SeqSum(ReduceValues(st))
FusedAny(st) == \E i \in 1..Len(ReduceValues(st)) : ReduceValues(st)[i] # 0
FusedAll(st) == \A i \in 1..Len(ReduceValues(st)) : ReduceValues(st)[i] # 0
FusedCountNonzero(st) ==
    Cardinality({i \in 1..Len(ReduceValues(st)) : ReduceValues(st)[i] # 0})

\* ------------------- elementwise operations, src/starsim/states.py
\* the ufuncs applied: np.bitwise_and (&), np.add (+), np.less (<)
RECURSIVE BitAnd(_, _)
BitAnd(x, y) ==
    IF x = 0 \/ y = 0 THEN 0
    ELSE (x % 2) * (y % 2) + 2 * BitAnd(x \div 2, y \div 2)
UfuncOps == {"and", "add", "lt"}
InPlaceOps == {"and", "add"}
Op(op, x, y) ==
    CASE op = "and" -> BitAnd(x, y)
      [] op = "add" -> x + y
      [] op = "lt" -> x < y
InPlaceName(op) == CASE op = "and" -> "iand" [] op = "add" -> "iadd"

\* every entry is combined with the first entry of the other operand
UfuncValues_FirstOnly(op, a, b) == [i \in 1..Len(a) |-> Op(op, a[i], b[1])]

\* ufunc(self.values, other.values) on two arrays of the same length
UfuncValues(op, a, b) == [i \in 1..Len(a) |-> Op(op, a[i], b[i])]

\* FusedArray.__array_ufunc__(ufunc, '__call__', self, other): self.values
\* and other.values are combined (a ValueError when the lengths differ);
\* without out the result is a new FusedArray over the same uid and _uid_map,
\* with out = self the result is written to self.values and self is returned
ArrayUfunc(op, self, other, inplace) ==
    IF Len(Values(self)[1]) # Len(Values(other)[1])
    THEN [err |-> "ValueError", self |-> self, ret |-> None]
    ELSE LET out == UfuncValues(op, Values(self)[1], Values(other)[1])
         IN  IF inplace
             THEN LET new == [self EXCEPT !.data = << NpPutHead(self.data[1], out) >>]
                  IN  [err |-> "none", self |-> new,
                       ret |-> [none |-> FALSE, v |-> Values(new)[1], self |-> TRUE]]
             ELSE [err |-> "none", self |-> self,
                   ret |-> [none |-> FALSE, v |-> out, self |-> FALSE]]

\* r = s op t
UfuncStep(op) ==
    /\ ArrayUfunc(op, states["s"], states["t"], FALSE).err = "none"
    /\ last' = [op |-> op, n |-> 0, uids |-> <<>>,
                ret |-> ArrayUfunc(op, states["s"], states["t"], FALSE).ret,
                err |-> "none"]
    /\ UNCHANGED <<initialized, uid_map, uids, states, live, ever, gone, ppl, sim, dist, mod>>

\* s op= t, while the values stay within 0..MaxVal
InPlaceStep(op) ==
    LET r == ArrayUfunc(op, states["s"], states["t"], TRUE)
    IN  /\ r.err = "none"
        /\ \A i \in 1..Len(r.ret.v) : r.ret.v[i] <= MaxVal
        /\ states' = [states EXCEPT !["s"] = r.self]
        /\ last' = [op |-> InPlaceName(op), n |-> 0, uids |-> <<>>,
                    ret |-> r.ret, err |-> "none"]
        /\ UNCHANGED <<initialized, uid_map, uids, live, ever, gone, ppl, sim, dist, mod>>

\* DynamicPeople(states=[s, t])
InitOps ==
    /\ initialized = FALSE
    /\ uid_map = ProtoState(1, ProtoFill)
    /\ uids = ProtoState(1, ProtoFill)
    /\ states = [c \in {"s", "t"} |-> Column(c)]
    /\ last = [op |-> "new", n |-> 0, uids |-> <<>>, ret |-> None, err |-> "none"]
    /\ live = {}
    /\ ever = {}
    /\ gone = {}
    /\ sim = NoSim
    /\ dist = NoDist
    /\ mod = NoMod
    /\ ppl = [built |-> FALSE]

NextOps ==
    \/ \E k \in 0..MaxInit : Initialize(k)
    \/ \E k \in 0..MaxGrow : Grow(k)
    \/ \E req \in Requests : Remove(req)
    \/ \E c \in DOMAIN states, u \in 0..(MaxUids - 1), v \in 0..MaxVal :
          Set(c, 0, u, v)
    \/ \E op \in UfuncOps : UfuncStep(op)
    \/ \E op \in InPlaceOps : InPlaceStep(op)

SpecOps == InitOps /\ [][NextOps]_vars

\* --------------------------------------------- Sim, src/stisim/sim.py
\* Sim.__init__: complete = False; initialized and results_ready are None
\* (false); ti and npts are None until initialize (held as 0 and not read
\* while initialized is false).  pars: the number of time points the
\* parameters give and n_agents.  calls: the updates, steps and finalizations
\* done since initialize; log: the updates and advances of ti since
\* initialize, in the order they were done, each with the ti it ran at
ZeroCalls == [demographics |-> 0, networks |-> 0, modules |-> 0, finalize |-> 0]
SimNew(n_pts, n_agents) ==
    [built |-> TRUE, initialized |-> FALSE, complete |-> FALSE,
     results_ready |-> FALSE, ti |-> 0, npts |-> 0,
     pars |-> [npts |-> n_pts, n_agents |-> n_agents], calls |-> ZeroCalls,
     log |-> <<>>]

\* Sim.initialize: ti = 0, init_time_vecs sets npts, init_people makes the
\* People when there is none; initialized = True, complete = False,
\* results_ready = False
SimInitializeResult(s) ==
    [s EXCEPT !.ti = 0, !.npts = s.pars.npts, !.initialized = TRUE,
              !.complete = FALSE, !.results_ready = FALSE, !.calls = ZeroCalls,
              !.log = <<>>]
InitPeopleResult(s, p) == IF p.built THEN p ELSE PplConstruct(s.pars.n_agents)

\* People.update_demographics(dt, ti): alive[ti_dead <= ti] = False, D the
\* positions of the agents whose ti_dead has come
UpdateDemographics(p, D) ==
    [p EXCEPT !.data["alive"] =
        [i \in 1..Len(@) |-> IF i <= p.n /\ (i - 1) \in D THEN 0 ELSE @[i]]]

\* Sim.update_demographics, update_networks, update_modules: each calls the
\* people, the network layers or the modules with the sim at its current ti
SimUpdateDemographics(s) ==
    [s EXCEPT !.calls.demographics = @ + 1,
              !.log = Append(@, [phase |-> "demographics", ti |-> s.ti])]
SimUpdateNetworks(s) ==
    [s EXCEPT !.calls.networks = @ + 1,
              !.log = Append(@, [phase |-> "networks", ti |-> s.ti])]
SimUpdateModules(s) ==
    [s EXCEPT !.calls.modules = @ + 1,
              !.log = Append(@, [phase |-> "modules", ti |-> s.ti])]
\* Sim.step, tidy up: ti += 1; complete = True when ti == npts
SimAdvance(s) ==
    [s EXCEPT !.ti = @ + 1, !.complete = (s.ti + 1 = s.npts),
              !.log = Append(@, [phase |-> "ti", ti |-> s.ti + 1])]

\* complete is set one step late
SimStepResult_Late(s) ==
    IF s.complete THEN [err |-> "AlreadyRunError", sim |-> s]
    ELSE IF ~s.initialized THEN [err |-> "AttributeError", sim |-> s]
    ELSE [err |-> "none",
          sim |-> [SimAdvance(SimUpdateModules(SimUpdateNetworks(
                       SimUpdateDemographics(s))))
                   EXCEPT !.complete = (s.ti = s.npts)]]

\* the modules are updated before the people and the networks
SimStepResult_ModulesFirst(s) ==
    IF s.complete THEN [err |-> "AlreadyRunError", sim |-> s]
    ELSE IF ~s.initialized THEN [err |-> "AttributeError", sim |-> s]
    ELSE [err |-> "none",
          sim |-> SimAdvance(SimUpdateNetworks(SimUpdateDemographics(
                      SimUpdateModules(s))))]

\* ti is advanced by two
SimStepResult_Skip(s) ==
    IF s.complete THEN [err |-> "AlreadyRunError", sim |-> s]
    ELSE IF ~s.initialized THEN [err |-> "AttributeError", sim |-> s]
    ELSE [err |-> "none",
          sim |-> [SimAdvance(SimUpdateModules(SimUpdateNetworks(
                       SimUpdateDemographics(s))))
                   EXCEPT !.ti = s.ti + 2,
                          !.complete = (s.ti + 2 >= s.npts)]]

\* Sim.step: AlreadyRunError when complete (a sim that was never initialized
\* has no people: update_demographics raises AttributeError); else
\* update_demographics, update_networks, update_modules, ti += 1, and
\* complete = True when ti == npts
SimStepResult(s) ==
    IF s.complete THEN [err |-> "AlreadyRunError", sim |-> s]
    ELSE IF ~s.initialized THEN [err |-> "AttributeError", sim |-> s]
    ELSE [err |-> "none",
          sim |-> SimAdvance(SimUpdateModules(SimUpdateNetworks(
                      SimUpdateDemographics(s))))]

\* finalize takes effect whether or not the results are ready
SimFinalizeResult_NoGuard(s) ==
    IF ~s.initialized
    THEN [err |-> "TypeError", sim |-> [s EXCEPT !.results_ready = TRUE]]
    ELSE [err |-> "none",
          sim |-> [s EXCEPT !.results_ready = TRUE, !.ti = @ - 1,
                            !.calls.finalize = @ + 1]]

\* Sim.finalize: AlreadyRunError when results_ready; else results_ready =
\* True and ti -= 1 (a TypeError while ti is None)
SimFinalizeResult(s) ==
    IF s.results_ready THEN [err |-> "AlreadyRunError", sim |-> s]
    ELSE IF ~s.initialized
    THEN [err |-> "TypeError", sim |-> [s EXCEPT !.results_ready = TRUE]]
    ELSE [err |-> "none",
          sim |-> [s EXCEPT !.results_ready = TRUE, !.ti = @ - 1,
                            !.calls.finalize = @ + 1]]

\* the check for a time that has been reached is left out
RunRaises_NoReached(s, until) == until > s.npts \/ s.complete

\* Sim.run: the checks that raise AlreadyRunError before the loop
RunRaises(s, until) == until > s.npts \/ s.ti >= until \/ s.complete

\* pars['timelimit'] and pars['stopping_func'] never end the loop
NoStop == -1

\* Sim.run, the main loop: while ti < until, return when the time limit or
\* the stopping function says so (stop: the number of steps after which it
\* does), else step
RECURSIVE RunLoop(_, _, _, _)
RunLoop(s, until, stop, done) ==
    IF s.ti < until
    THEN IF stop = done THEN [stopped |-> TRUE, sim |-> s, steps |-> done]
         ELSE RunLoop(SimStepResult(s).sim, until, stop, done + 1)
    ELSE [stopped |-> FALSE, sim |-> s, steps |-> done]

\* Sim.run(until): initialize when not initialized; until defaults to npts;
\* AlreadyRunError from the checks; the loop; finalize when complete
SimRunResult(s, given, until_arg, stop) ==
    LET s1    == IF s.initialized THEN s ELSE SimInitializeResult(s)
        until == IF given THEN until_arg ELSE s1.npts
        loop  == RunLoop(s1, until, stop, 0)
    IN  IF RunRaises(s1, until)
        THEN [err |-> "AlreadyRunError", sim |-> s1, until |-> until, steps |-> 0]
        ELSE IF loop.stopped \/ ~loop.sim.complete
        THEN [err |-> "none", sim |-> loop.sim, until |-> until,
              steps |-> loop.steps]
        ELSE [err |-> SimFinalizeResult(loop.sim).err,
              sim |-> SimFinalizeResult(loop.sim).sim, until |-> until,
              steps |-> loop.steps]

\* Sim(pars), people made by init_people
InitSim ==
    /\ initialized = FALSE
    /\ uid_map = ProtoState(1, ProtoFill)
    /\ uids = ProtoState(1, ProtoFill)
    /\ states = [c \in {} |-> 0]
    /\ last = [op |-> "new", n |-> 0, uids |-> <<>>, ret |-> None, err |-> "none"]
    /\ live = {}
    /\ ever = {}
    /\ gone = {}
    /\ ppl = [built |-> FALSE]
    /\ \E n_pts \in 1..MaxNpts, n_agents \in 1..MaxPplInit :
          sim = SimNew(n_pts, n_agents)
    /\ dist = NoDist
    /\ mod = NoMod

SimInitialize ==
    /\ sim' = SimInitializeResult(sim)
    /\ ppl' = InitPeopleResult(sim, ppl)
    /\ last' = [op |-> "initialize", n |-> 0, uids |-> <<>>, ret |-> None,
                err |-> "none"]
    /\ UNCHANGED <<initialized, uid_map, uids, states, live, ever, gone, dist, mod>>

SimStep(D) ==
    /\ sim' = SimStepResult(sim).sim
    /\ ppl' = IF SimStepResult(sim).err = "none"
              THEN UpdateDemographics(ppl, D) ELSE ppl
    /\ last' = [op |-> "step", n |-> 0, uids |-> <<>>, ret |-> None,
                err |-> SimStepResult(sim).err]
    /\ UNCHANGED <<initialized, uid_map, uids, states, live, ever, gone, dist, mod>>

\* the arguments are kept in last: n is until, uids holds stop when the loop
\* was ended by the time limit or the stopping function
SimRun(given, until_arg, stop, D) ==
    LET r == SimRunResult(sim, given, until_arg, stop)
        p == InitPeopleResult(sim, ppl)
    IN  /\ sim' = r.sim
        /\ ppl' = IF r.steps > 0 THEN UpdateDemographics(p, D) ELSE p
        /\ last' = [op |-> "run", n |-> r.until,
                    uids |-> IF stop = NoStop THEN <<>> ELSE << stop >>,
                    ret |-> None, err |-> r.err]
        /\ UNCHANGED <<initialized, uid_map, uids, states, live, ever, gone, dist, mod>>

SimFinalize ==
    /\ sim' = SimFinalizeResult(sim).sim
    /\ last' = [op |-> "finalize", n |-> 0, uids |-> <<>>, ret |-> None,
                err |-> SimFinalizeResult(sim).err]
    /\ UNCHANGED <<initialized, uid_map, uids, states, live, ever, gone, ppl, dist, mod>>

Deaths == SUBSET (0..(MaxPplInit - 1))

NextSim ==
    \/ SimInitialize
    \/ \E D \in Deaths : SimStep(D)
    \/ \E given \in BOOLEAN, until_arg \in 0..(MaxNpts + 1),
          stop \in {NoStop} \cup 0..(MaxNpts - 1), D \in Deaths :
          SimRun(given, until_arg, stop, D)
    \/ SimFinalize

SpecSim == InitSim /\ [][NextSim]_vars

\* ------------- the sampler ss.Dist, src/tests/test_distributions.py
\* ss.Dist(dist).initialize(slots=np.arange(MaxDraw)): the stream is the
\* sequence of random numbers the seed gives, pos the numbers drawn so far
\* since the last reset; slot u belongs to identifier u
DistNew(stream) == [built |-> TRUE, stream |-> stream, pos |-> 0]

\* the reset leaves the stream where it is
DistReset_Keep(d) == d

\* d.reset(): the stream starts again
DistReset(d) == [d EXCEPT !.pos = 0]

\* d.rvs(m): the next m numbers of the stream
RvsCount(d, m) ==
    [ret |-> [i \in 1..m |-> d.stream[d.pos + i]],
     dist |-> [d EXCEPT !.pos = @ + m]]

\* d.rvs(uids): max(slot) + 1 numbers are drawn and each identifier gets the
\* number of its slot
NSamples(u) ==
    IF u = <<>> THEN 0
    ELSE 1 + CHOOSE x \in Range(u) : \A y \in Range(u) : y <= x
RvsUids(d, u) ==
    [ret |-> [i \in 1..Len(u) |-> d.stream[d.pos + u[i] + 1]],
     dist |-> [d EXCEPT !.pos = @ + NSamples(u)]]

InitDist ==
    /\ initialized = FALSE
    /\ uid_map = ProtoState(1, ProtoFill)
    /\ uids = ProtoState(1, ProtoFill)
    /\ states = [c \in {} |-> 0]
    /\ last = [op |-> "new", n |-> 0, uids |-> <<>>, ret |-> None, err |-> "none"]
    /\ live = {}
    /\ ever = {}
    /\ gone = {}
    /\ ppl = [built |-> FALSE]
    /\ sim = NoSim
    /\ \E stream \in [1..MaxDraw -> 0..MaxVal] : dist = DistNew(stream)
    /\ mod = NoMod

DistResetStep ==
    /\ dist' = DistReset(dist)
    /\ last' = [op |-> "reset", n |-> 0, uids |-> <<>>, ret |-> None, err |-> "none"]
    /\ UNCHANGED <<initialized, uid_map, uids, states, live, ever, gone, ppl, sim, mod>>

RvsCountStep(m) ==
    /\ dist.pos + m <= MaxDraw
    /\ dist' = RvsCount(dist, m).dist
    /\ last' = [op |-> "rvs", n |-> m, uids |-> <<>>,
                ret |-> Returned(RvsCount(dist, m).ret), err |-> "none"]
    /\ UNCHANGED <<initialized, uid_map, uids, states, live, ever, gone, ppl, sim, mod>>

RvsUidsStep(u) ==
    /\ dist.pos + NSamples(u) <= MaxDraw
    /\ dist' = RvsUids(dist, u).dist
    /\ last' = [op |-> "rvs_uids", n |-> 0, uids |-> u,
                ret |-> Returned(RvsUids(dist, u).ret), err |-> "none"]
    /\ UNCHANGED <<initialized, uid_map, uids, states, live, ever, gone, ppl, sim, mod>>

\* arrays of one or two different identifiers
UidArrays ==
    {<< a >> : a \in 0..(MaxDraw - 1)} \cup
    {u \in {<< a, b >> : a \in 0..(MaxDraw - 1), b \in 0..(MaxDraw - 1)} :
        u[1] # u[2]}

NextDist ==
    \/ DistResetStep
    \/ \E m \in 1..MaxDraw : RvsCountStep(m)
    \/ \E u \in UidArrays : RvsUidsStep(u)

SpecDist == InitDist /\ [][NextDist]_vars

\* ------------------------- the SIR module, src/stisim/diseases/examples.py
\* np.nan, the fill of the float states t_infected, t_recovered, t_dead
\* (here a number no time takes); every comparison with it is False
NaN == -1
LeYear(t, year) == t # NaN /\ t <= year

\* a[mask]: the elements of a where the boolean array mask is True
Select(a, mask) ==
    LET RECURSIVE sel(_)
        sel(i) == IF i > Len(a) THEN <<>>
                  ELSE (IF mask[i] THEN << a[i] >> ELSE <<>>) \o sel(i + 1)
    IN  sel(1)

\* state[uids] = value, and state[uids] = values (for an identifier that is
\* there twice the last value stays)
SetScalar(a, ids, v) ==
    [p \in 1..Len(a) |-> IF \E i \in 1..Len(ids) : ids[i] = p - 1 THEN v ELSE a[p]]
SetEach(a, ids, vals) ==
    [p \in 1..Len(a) |->
        IF \E i \in 1..Len(ids) : ids[i] = p - 1
        THEN vals[CHOOSE i \in 1..Len(ids) :
                     /\ ids[i] = p - 1
                     /\ \A j \in 1..Len(ids) : ids[j] = p - 1 => j <= i]
        ELSE a[p]]

\* SIR.__init__ and init_results on a population of SirAgents agents and a
\* sim of SirNpts time points; n_infect is history: how often infect was
\* applied to each agent
SirNew ==
    [built |-> TRUE, kind |-> "sir", ti |-> 0,
     alive |-> [p \in 1..SirAgents |-> TRUE],
     susceptible |-> [p \in 1..SirAgents |-> TRUE],
     infected |-> [p \in 1..SirAgents |-> FALSE],
     recovered |-> [p \in 1..SirAgents |-> FALSE],
     t_infected |-> [p \in 1..SirAgents |-> NaN],
     t_recovered |-> [p \in 1..SirAgents |-> NaN],
     t_dead |-> [p \in 1..SirAgents |-> NaN],
     new_infections |-> [i \in 1..SirNpts |-> 0],
     n_infect |-> [p \in 1..SirAgents |-> 0]]

\* SIR.infect(sim, uids) with the draws dur_inf and dead (sim.year is ti)
Infect(m, ids, dur_inf, dead) ==
    LET year  == m.ti
        alive_ == [i \in 1..Len(ids) |-> ~dead[i]]
        dead_ == [i \in 1..Len(ids) |-> dead[i]]
        t_end == [i \in 1..Len(ids) |-> year + dur_inf[i]]
    IN  [m EXCEPT
            !.susceptible = SetScalar(@, ids, FALSE),
            !.infected = SetScalar(@, ids, TRUE),
            !.t_infected = SetScalar(@, ids, year),
            !.t_recovered = SetEach(@, Select(ids, alive_), Select(t_end, alive_)),
            !.t_dead = SetEach(@, Select(ids, dead_), Select(t_end, dead_)),
            !.new_infections[m.ti + 1] = @ + Len(ids),
            !.n_infect = [p \in 1..Len(@) |->
                @[p] + Cardinality({i \in 1..Len(ids) : ids[i] = p - 1})]]

\* SIR.update_pre: infected agents whose t_recovered has come recover; the
\* agents whose t_dead has come are handed to request_death, and
\* update_death clears their infected and recovered flags
SirUpdatePre(m) ==
    LET year   == m.ti
        rec    == {p \in 1..SirAgents :
                      m.infected[p] /\ LeYear(m.t_recovered[p], year)}
        deaths == {p \in 1..SirAgents : LeYear(m.t_dead[p], year)}
    IN  [m EXCEPT
            !.infected = [p \in 1..SirAgents |->
                             IF p \in rec \cup deaths THEN FALSE ELSE @[p]],
            !.recovered = [p \in 1..SirAgents |->
                              IF p \in deaths THEN FALSE
                              ELSE IF p \in rec THEN TRUE ELSE @[p]],
            !.alive = [p \in 1..SirAgents |->
                          IF p \in deaths THEN FALSE ELSE @[p]]]

\* p_transmit = rel_trans[a] * rel_sus[b] * beta * dt is positive at contact i
CanTransmit(rel_trans, rel_sus, a, b, i) ==
    rel_trans[a[i] + 1] /\ rel_sus[b[i] + 1]

\* one direction a -> b of make_new_cases: new_cases is the draw
\* np.random.random(len(a)) < p_transmit; infect(sim, b[new_cases]) if any
Transmit(m, b, new_cases, dur, dead) ==
    LET ids == Select(b, new_cases)
    IN  IF ids = <<>> THEN m
        ELSE Infect(m, ids, [i \in 1..Len(ids) |-> dur], SubSeq(dead, 1, Len(ids)))

\* SIR.make_new_cases over one layer with the contacts p1, p2: rel_trans and
\* rel_sus are computed once, then p1 -> p2 and p2 -> p1
MakeNewCases(m, p1, p2, nc1, dur1, dead1, nc2, dur2, dead2) ==
    Transmit(Transmit(m, p2, nc1, dur1, dead1), p1, nc2, dur2, dead2)

\* the contact lists of a layer: pairs of two different agents, no pair
\* of agents listed twice
Contacts ==
    {q \in UNION {[1..k -> (0..(SirAgents - 1)) \X (0..(SirAgents - 1))] :
                     k \in 0..MaxContacts} :
        /\ \A i \in 1..Len(q) : q[i][1] # q[i][2]
        /\ \A i \in 1..Len(q) : \A j \in 1..Len(q) :
              i # j => {q[i][1], q[i][2]} # {q[j][1], q[j][2]}}

\* SIR.set_initial_states: infect the initial cases, chosen without
\* replacement (pars['initial'] agents)
InitSIR ==
    /\ initialized = FALSE
    /\ uid_map = ProtoState(1, ProtoFill)
    /\ uids = ProtoState(1, ProtoFill)
    /\ states = [c \in {} |-> 0]
    /\ last = [op |-> "new", n |-> 0, uids |-> <<>>, ret |-> None, err |-> "none"]
    /\ live = {}
    /\ ever = {}
    /\ gone = {}
    /\ ppl = [built |-> FALSE]
    /\ sim = NoSim
    /\ dist = NoDist
    /\ \E initial_cases \in {q \in UNION {[1..k -> 0..(SirAgents - 1)] : k \in 1..2} :
                                \A i \in 1..Len(q) : \A j \in 1..Len(q) :
                                    i # j => q[i] # q[j]} :
       \E dur \in 1..MaxDurInf : \E dead \in [1..2 -> BOOLEAN] :
          mod = Infect(SirNew, initial_cases,
                       [i \in 1..Len(initial_cases) |-> dur],
                       SubSeq(dead, 1, Len(initial_cases)))

\* one time step of the sim with the SIR module: update_pre, make_new_cases
\* over the contacts of the step, then Sim.step's ti += 1
SirStep ==
    /\ mod.built
    /\ mod.kind = "sir"
    /\ mod.ti < SirNpts
    /\ \E q \in Contacts :
         LET m0 == SirUpdatePre(mod)
             p1 == [i \in 1..Len(q) |-> q[i][1]]
             p2 == [i \in 1..Len(q) |-> q[i][2]]
             rel_trans == [p \in 1..SirAgents |-> m0.infected[p] /\ m0.alive[p]]
             rel_sus == [p \in 1..SirAgents |-> m0.susceptible[p] /\ m0.alive[p]]
         IN  \E nc1 \in [1..Len(q) -> BOOLEAN], nc2 \in [1..Len(q) -> BOOLEAN] :
               /\ \A i \in 1..Len(q) :
                     /\ nc1[i] => CanTransmit(rel_trans, rel_sus, p1, p2, i)
                     /\ nc2[i] => CanTransmit(rel_trans, rel_sus, p2, p1, i)
               /\ \E dur1 \in 1..MaxDurInf, dur2 \in 1..MaxDurInf :
                  \E dead1 \in [1..MaxContacts -> BOOLEAN],
                     dead2 \in [1..MaxContacts -> BOOLEAN] :
                     mod' = [MakeNewCases(m0, p1, p2, nc1, dur1, dead1,
                                          nc2, dur2, dead2)
                               EXCEPT !.ti = @ + 1]
    /\ last' = [op |-> "step", n |-> mod.ti, uids |-> <<>>, ret |-> None,
                err |-> "none"]
    /\ UNCHANGED <<initialized, uid_map, uids, states, live, ever, gone, ppl,
                   sim, dist>>

NextSIR == SirStep

SpecSIR == InitSIR /\ [][NextSIR]_vars

\* -------------- the Syphilis module, src/starsim/diseases/syphilis.py
\* the states ti_* of the adult stages (those of the congenital outcomes
\* are written by set_congenital only, which needs pregnancies)
TiStates == {"ti_exposed", "ti_infected", "ti_primary", "ti_secondary",
             "ti_latent_temp", "ti_latent_long", "ti_tertiary"}

\* the sum of two integers of an int array: it wraps at the width of int,
\* whose largest value is INT_NAN
AddInt(a, d) ==
    IF d >= 0
    THEN IF a <= INT_NAN - d THEN a + d
         ELSE (a - INT_NAN - 1) + (d - INT_NAN - 1)
    ELSE IF a >= (-INT_NAN - 1) - d THEN a + d
         ELSE (a + INT_NAN + 1) + (d + INT_NAN + 1)

\* the steps rr(dur / sim.dt) of a lognormal duration, and of the normal
\* duration dur_secondary = sps.norm(loc=3.6/12, scale=1.5/12), which can
\* be negative
Durs == 0..MaxDur
DursSecondary == (-1)..MaxDur

\* Syphilis.__init__ on a population of SyphAgents agents; sched, path,
\* entered and nan_sum are history: the step at which each ti_* was last
\* written, the path drawn at the last entry to secondary, the step of
\* that entry, and whether a duration was ever added to INT_NAN
SyphNew ==
    [built |-> TRUE, kind |-> "syphilis", ti |-> 0,
     susceptible |-> [p \in 1..SyphAgents |-> TRUE],
     infected |-> [p \in 1..SyphAgents |-> FALSE],
     exposed |-> [p \in 1..SyphAgents |-> FALSE],
     primary |-> [p \in 1..SyphAgents |-> FALSE],
     secondary |-> [p \in 1..SyphAgents |-> FALSE],
     latent_temp |-> [p \in 1..SyphAgents |-> FALSE],
     latent_long |-> [p \in 1..SyphAgents |-> FALSE],
     tertiary |-> [p \in 1..SyphAgents |-> FALSE],
     ti_exposed |-> [p \in 1..SyphAgents |-> INT_NAN],
     ti_infected |-> [p \in 1..SyphAgents |-> INT_NAN],
     ti_primary |-> [p \in 1..SyphAgents |-> INT_NAN],
     ti_secondary |-> [p \in 1..SyphAgents |-> INT_NAN],
     ti_latent_temp |-> [p \in 1..SyphAgents |-> INT_NAN],
     ti_latent_long |-> [p \in 1..SyphAgents |-> INT_NAN],
     ti_tertiary |-> [p \in 1..SyphAgents |-> INT_NAN],
     sched |-> [name \in TiStates |-> [p \in 1..SyphAgents |-> 0]],
     path |-> [p \in 1..SyphAgents |-> "none"],
     entered |-> [p \in 1..SyphAgents |-> -1],
     nan_sum |-> FALSE]

\* self.<name>[uids] = base[uids] + rr(dur / sim.dt), for the agents ids
Schedule(m, name, base, ids, d) ==
    [m EXCEPT ![name] = [p \in 1..SyphAgents |->
                            IF p \in ids THEN AddInt(base[p], d[p]) ELSE @[p]],
              !.sched[name] = [p \in 1..SyphAgents |->
                                  IF p \in ids THEN m.ti ELSE @[p]],
              !.nan_sum = @ \/ \E p \in ids : base[p] = INT_NAN]

\* self.<flag>[mask] = value, for the agents ids
SetFlag(m, flag, ids, v) ==
    [m EXCEPT ![flag] = [p \in 1..SyphAgents |-> IF p \in ids THEN v ELSE @[p]]]

\* state & (ti_state <= sim.ti): the agents of a stage whose time has come
Due(m, flag, name) ==
    {p \in 1..SyphAgents : m[flag][p] /\ m[name][p] <= m.ti}

\* Syphilis.set_prognoses(sim, uids) with no source_uids
SetPrognoses(m, ids, dur_exposed, dur_primary) ==
    LET now == [p \in 1..SyphAgents |-> m.ti]
        zero == [p \in ids |-> 0]
        m1 == SetFlag(SetFlag(SetFlag(m, "susceptible", ids, FALSE),
                              "exposed", ids, TRUE), "infected", ids, TRUE)
        m2 == Schedule(Schedule(m1, "ti_exposed", now, ids, zero),
                       "ti_infected", now, ids, zero)
        m3 == Schedule(m2, "ti_primary", now, ids, dur_exposed)
    IN  Schedule(m3, "ti_secondary", m3.ti_primary, ids, dur_primary)

\* Syphilis.set_secondary_prognoses(sim, uids): latent_temp_uids is what
\* p_latent_temp.filter(uids) keeps, the others go to latent_long
SetSecondaryPrognoses(m, ids, latent_temp_uids, dur_secondary) ==
    LET latent_long_uids == ids \ latent_temp_uids
        m1 == Schedule(m, "ti_latent_temp", m.ti_secondary, latent_temp_uids,
                       dur_secondary)
        m2 == Schedule(m1, "ti_latent_long", m1.ti_secondary, latent_long_uids,
                       dur_secondary)
    IN  [m2 EXCEPT !.path = [p \in 1..SyphAgents |->
                                IF p \in latent_temp_uids THEN "temp"
                                ELSE IF p \in latent_long_uids THEN "long"
                                ELSE @[p]],
                   !.entered = [p \in 1..SyphAgents |->
                                   IF p \in ids THEN m.ti ELSE @[p]]]

\* Syphilis.set_latent_temp_prognoses(sim, uids)
SetLatentTempPrognoses(m, ids, dur_latent_temp) ==
    Schedule(m, "ti_secondary", m.ti_latent_temp, ids, dur_latent_temp)

\* Syphilis.set_latent_long_prognoses(sim, uids): tertiary_uids is what
\* p_tertiary.filter(uids) keeps
SetLatentLongPrognoses(m, ids, dur_latent_long, tertiary_uids, dur_tertiary) ==
    LET m1 == Schedule(m, "ti_secondary", m.ti_latent_temp, ids, dur_latent_long)
    IN  Schedule(m1, "ti_tertiary", m1.ti_latent_long, tertiary_uids, dur_tertiary)

\* update_pre, exposed -> primary
ToPrimary(m) ==
    LET ids == Due(m, "exposed", "ti_primary")
    IN  SetFlag(SetFlag(m, "primary", ids, TRUE), "exposed", ids, FALSE)

\* update_pre, primary -> secondary
SecondaryFromPrimary(m, latent_temp_uids, dur_secondary) ==
    LET ids == Due(m, "primary", "ti_secondary")
    IN  SetSecondaryPrognoses(
            SetFlag(SetFlag(m, "secondary", ids, TRUE), "primary", ids, FALSE),
            ids, latent_temp_uids \cap ids, dur_secondary)

\* update_pre, latent_temp -> secondary (reactivation)
SecondaryFromLatent(m, latent_temp_uids, dur_secondary) ==
    LET ids == Due(m, "latent_temp", "ti_secondary")
    IN  SetSecondaryPrognoses(
            SetFlag(SetFlag(m, "secondary", ids, TRUE), "latent_temp", ids, FALSE),
            ids, latent_temp_uids \cap ids, dur_secondary)

\* update_pre, secondary -> latent_temp
ToLatentTemp(m, dur_latent_temp) ==
    LET ids == Due(m, "secondary", "ti_latent_temp")
    IN  SetLatentTempPrognoses(
            SetFlag(SetFlag(m, "latent_temp", ids, TRUE), "secondary", ids, FALSE),
            ids, dur_latent_temp)

\* update_pre, secondary -> latent_long
ToLatentLong(m, dur_latent_long, tertiary_uids, dur_tertiary) ==
    LET ids == Due(m, "secondary", "ti_latent_long")
    IN  SetLatentLongPrognoses(
            SetFlag(SetFlag(m, "latent_long", ids, TRUE), "secondary", ids, FALSE),
            ids, dur_latent_long, tertiary_uids \cap ids, dur_tertiary)

\* update_pre, latent_long -> tertiary
ToTertiary(m) ==
    LET ids == Due(m, "latent_long", "ti_tertiary")
    IN  SetFlag(SetFlag(m, "tertiary", ids, TRUE), "latent_long", ids, FALSE)

InitSyph ==
    /\ initialized = FALSE
    /\ uid_map = ProtoState(1, ProtoFill)
    /\ uids = ProtoState(1, ProtoFill)
    /\ states = [c \in {} |-> 0]
    /\ last = [op |-> "new", n |-> 0, uids |-> <<>>, ret |-> None, err |-> "none"]
    /\ live = {}
    /\ ever = {}
    /\ gone = {}
    /\ ppl = [built |-> FALSE]
    /\ sim = NoSim
    /\ dist = NoDist
    /\ mod = SyphNew

\* one time step of the sim with the Syphilis module: update_pre with the
\* draws of the prognoses (each over the agents it is made for), then the
\* new cases of the step handed to set_prognoses, then ti += 1
SyphStep ==
    /\ mod.built
    /\ mod.kind = "syphilis"
    /\ mod.ti < SyphNpts
    /\ LET m1 == ToPrimary(mod)
           s2 == Due(m1, "primary", "ti_secondary")
       IN  \E lt2 \in SUBSET s2 : \E d2 \in [s2 -> DursSecondary] :
           LET m2 == SecondaryFromPrimary(m1, lt2, d2)
               s3 == Due(m2, "latent_temp", "ti_secondary")
           IN  \E lt3 \in SUBSET s3 : \E d3 \in [s3 -> DursSecondary] :
               LET m3 == SecondaryFromLatent(m2, lt3, d3)
                   s4 == Due(m3, "secondary", "ti_latent_temp")
               IN  \E d4 \in [s4 -> Durs] :
                   LET m4 == ToLatentTemp(m3, d4)
                       s5 == Due(m4, "secondary", "ti_latent_long")
                   IN  \E d5 \in [s5 -> Durs] : \E ter \in SUBSET s5 :
                       \E d6 \in [ter -> Durs] :
                       LET m6 == ToTertiary(ToLatentLong(m4, d5, ter, d6))
                           sus == {p \in 1..SyphAgents : m6.susceptible[p]}
                       IN  \E new \in SUBSET sus :
                           \E de \in [new -> Durs], dp \in [new -> Durs] :
                              mod' = [SetPrognoses(m6, new, de, dp)
                                        EXCEPT !.ti = @ + 1]
    /\ last' = [op |-> "step", n |-> mod.ti, uids |-> <<>>, ret |-> None,
                err |-> "none"]
    /\ UNCHANGED <<initialized, uid_map, uids, states, live, ever, gone, ppl,
                   sim, dist>>

NextSyph == SyphStep

SpecSyph == InitSyph /\ [][NextSyph]_vars

\* ================================================================ claims
\* the rows of column c, and a get of agent u in row g of column c
Rows(c) == 0..(Len(states[c].data) - 1)
GetCol(c, g, u) == Get(states[c], uid_map, g, u)
MapPos(u) == Lookup(uid_map, u)

\* C1: after any sequence of initialize, grow and remove, every live
\* identifier maps to a position below the count, distinct live identifiers
\* map to distinct positions, the uid column holds the identifier there, and
\* a get by the identifier succeeds in every column.
C1_IdentityIntegrity ==
    initialized =>
        /\ \A u \in live :
              /\ MapPos(u).err = "none"
              /\ MapPos(u).v >= 0 /\ MapPos(u).v < Count
              /\ Values(uids)[1][MapPos(u).v + 1] = u
              /\ \A c \in DOMAIN states : \A g \in Rows(c) :
                    GetCol(c, g, u).err = "none"
        /\ \A u \in live : \A w \in live : u # w => MapPos(u).v # MapPos(w).v
        /\ Count = Cardinality(live)

\* a grow after a remove: two agents, one of them no longer at the position
\* of its identifier
C1_Witness ==
    /\ last.op = "grow" /\ last.n >= 1
    /\ Cardinality(live) >= 2
    /\ \E u \in live : MapPos(u).v # u

\* C2: after every initialize, grow, remove or registration of a column, the
\* logical length of every registered column equals the count of agents
\* (stated for the People of stisim, whose columns are the views of _data).
C2_LengthIsCount ==
    ppl.built => \A key \in DOMAIN ppl.data : Len(PplView(ppl, key)) = ppl.n

\* the ascending sequence of a set of identifiers
SortedSeq(S) ==
    CHOOSE q \in [1..Cardinality(S) -> S] :
        \A i \in 1..Cardinality(S) : \A j \in 1..Cardinality(S) :
            i < j => q[i] < q[j]

\* C3: remove(S) leaves the value of every surviving identifier unchanged in
\* every registered column, 1-D and 2-D: a get by a survivor returns after
\* the call what it returned before it.
C3_RemoveKeepsSurvivors ==
    [][last'.op = "remove" =>
          \A u \in live' : \A c \in DOMAIN states : \A g \in Rows(c) :
              /\ GetCol(c, g, u).err = "none"
              /\ GetCol(c, g, u)' = GetCol(c, g, u)]_vars

\* a 2-D column after a remove, with a survivor that has moved and holds
\* different values in its two rows
C3_Witness ==
    /\ last.op = "remove"
    /\ \E c \in DOMAIN states :
          /\ Len(states[c].data) = YShape
          /\ \E u \in live :
                /\ MapPos(u).v # u
                /\ GetCol(c, 0, u) # GetCol(c, 1, u)

\* C4: after remove(S) the survivors occupy the positions 0..k-1 in the
\* relative order they had before, and that order is the same in the uid
\* column, in every registered column and in the rebuilt identity map.
C4_RemoveKeepsOrder ==
    [][last'.op = "remove" =>
          LET old == Values(uids)[1]
              new == Values(uids)'[1]
          IN  /\ new = SelectSeq(old, LAMBDA e : e \in live')
              /\ Len(new) = Cardinality(live')
              /\ \A i \in 1..Len(new) :
                    /\ Lookup(uid_map', new[i]) = Ok(i - 1)
                    /\ \A c \in DOMAIN states : \A g \in Rows(c) :
                          /\ Len(Values(states[c])'[g + 1]) = Len(new)
                          /\ Values(states[c])'[g + 1][i] =
                                Values(states[c])[g + 1][MapPos(new[i]).v + 1]]_vars

\* a remove that left two survivors, the first of them moved to the front
C4_Witness ==
    /\ last.op = "remove"
    /\ Count >= 2
    /\ \E u \in live : MapPos(u).v # u
    /\ \E c \in DOMAIN states : \E u \in live : \E w \in live :
          GetCol(c, 0, u) # GetCol(c, 0, w)

\* a get or a set by identifier u, as a scalar or inside an array of UIDs,
\* raises the not-found error in every column
NotFound(u) ==
    /\ Get(uids, uid_map, 0, u) = IndexError
    /\ \A c \in DOMAIN states : \A g \in Rows(c) :
          /\ GetCol(c, g, u) = IndexError
          /\ GetUids(states[c], uid_map, g, << u >>) = IndexError
          /\ \A w \in live : GetUids(states[c], uid_map, g, << w, u >>) = IndexError
          /\ \A v \in 0..MaxVal :
                /\ SetItem(states[c], uid_map, g, u, v).err = "IndexError"
                /\ SetUids(states[c], uid_map, g, << u >>, v).err = "IndexError"

\* C5: once an identifier has been removed, a get or a set by it raises the
\* not-found error in every later state, whatever grows and removes follow.
C5_RemovedStaysNotFound == \A u \in gone : NotFound(u)

\* a grow that followed the removal of an identifier, with agents left
C5_Witness ==
    /\ last.op = "grow" /\ last.n >= 1
    /\ Count >= 2
    /\ \E u \in gone : \E w \in live : w > u

\* C6: after remove(S) the count is the count of before minus the number of
\* distinct identifiers of S that were live.
C6_RemoveCount ==
    [][last'.op = "remove" =>
          /\ Count' = Count - Cardinality(Range(last'.uids) \cap live)
          /\ \A c \in DOMAIN states : states'[c].n = Count']_vars

\* a remove of a request that named a live identifier and a never issued
\* one: one agent went, others are left
C6_Witness ==
    /\ last.op = "remove"
    /\ Len(last.uids) = 2
    /\ last.uids[1] \in gone /\ last.uids[2] \notin ever
    /\ Count >= 1
    /\ Count = Cardinality(ever) - 1

\* what a caller can see of a population: the count, the identity map and
\* the contents of the uid column and of every column
Visible(um, ud, st) ==
    [count |-> ud.n, uid_map |-> Values(um)[1], uids |-> Values(ud)[1],
     states |-> [c \in DOMAIN st |-> Values(st[c])]]

\* C7: remove(S) called again right after remove(S) changes nothing: the
\* count, the identity map and every column's contents stay as they are.
C7_RemoveTwice ==
    last.op = "remove" =>
        LET r == RemoveResult(last.uids)
        IN  Visible(r.uid_map, r.uids, r.states) = Visible(uid_map, uids, states)

\* the state after a remove that removed an agent and left others
C7_Witness ==
    /\ last.op = "remove"
    /\ Range(last.uids) \cap (ever \ live) # {}
    /\ Count >= 1
    /\ \E u \in live : MapPos(u).v # u

\* C8: identifiers of S that are not live and identifiers repeated in S are
\* ignored: remove(S) leaves the state that removing the live identifiers of
\* S, each once, leaves.
C8_RemoveIgnoresAbsent ==
    [][last'.op = "remove" =>
          LET r == RemoveResult(SortedSeq(Range(last'.uids) \cap live))
          IN  /\ uid_map' = r.uid_map
              /\ uids' = r.uids
              /\ states' = r.states]_vars

\* a remove of a request that names one issued identifier twice, with agents
\* left; and the same for a request with a never issued identifier
C8_Witness ==
    /\ last.op = "remove"
    /\ Len(last.uids) = 2 /\ last.uids[1] = last.uids[2]
    /\ last.uids[1] \in ever \ live
    /\ Count >= 1

\* the identifier that follows the largest one ever issued
NextUid == IF ever = {} THEN 0 ELSE (CHOOSE u \in ever : \A w \in ever : w <= u) + 1

\* C9: identifiers are issued in creation order from 0 and never reused:
\* initialize(k) gives 0..k-1 mapped 1:1 to positions, and grow(n) issues the
\* n identifiers that follow the largest one ever issued.
C9_UidsNeverReused ==
    [][/\ last'.op = "initialize" =>
             /\ Values(uids)'[1] = Arange(0, last'.n)
             /\ \A u \in 0..(last'.n - 1) : MapPos(u)' = Ok(u)
       /\ last'.op = "grow" =>
             /\ NewAgents(Values(uids)[1], Values(uids)'[1])
                   = Arange(NextUid, NextUid + last'.n)
             /\ \A u \in NextUid..(NextUid + last'.n - 1) :
                   MapPos(u)' = Ok(Count + u - NextUid)]_vars

\* a grow right after the largest identifier issued so far was removed
C9_Witness ==
    /\ last.op = "grow" /\ last.n >= 1
    /\ \E u \in ever \ live : u + 1 \in live /\ MapPos(u + 1).v = Count - last.n

\* C10: grow(n) does not change the value held for any pre-existing live
\* identifier in any column, for every n >= 0.
C10_GrowKeepsValues ==
    [][last'.op = "grow" =>
          \A u \in live : \A c \in DOMAIN states : \A g \in Rows(c) :
              GetCol(c, g, u)' = GetCol(c, g, u)]_vars

\* the identifiers of the agents the last grow has appended
NewUidsOfLast == SubSeq(Values(uids)[1], Count - last.n + 1, Count)

\* C11: right after grow(n) each of the n new agents holds, in every column,
\* the value of the column's fill policy (the constant, for a constant
\* policy), and never a value left behind by a removed or moved agent,
\* whether or not the buffer was reallocated.
C11_GrowFills ==
    (last.op = "grow" /\ last.err = "none") =>
        \A i \in 1..Len(NewUidsOfLast) :
            \A c \in DOMAIN states : \A g \in Rows(c) :
                GetCol(c, g, NewUidsOfLast[i]) = Ok(states[c].fill_value)

\* C12: grow(n) increases the count by exactly n, for every n >= 0, whether
\* or not the buffers are reallocated: the count, the length of the uid
\* column and the length of every column.
C12_GrowCount ==
    [][(last'.op = "grow" /\ last'.err = "none") =>
          /\ Count' = Count + last'.n
          /\ Len(Values(uids)'[1]) = Len(Values(uids)[1]) + last'.n
          /\ \A c \in DOMAIN states :
                /\ states'[c].n = states[c].n + last'.n
                /\ \A g \in Rows(c) :
                      Len(Values(states[c])'[g + 1]) =
                          Len(Values(states[c])[g + 1]) + last'.n]_vars

\* a grow that needed no reallocation (the buffer has room left by a remove)
\* after one that did
C12_Witness ==
    /\ last.op = "grow" /\ last.n >= 1
    /\ gone # {}
    /\ Count >= 2
    /\ Cap(uid_map) > Cap(uids)

\* C13: grow(n) returns the n identifiers it has just issued, and each of
\* them resolves through the identity map to one of the n new positions.
C13_GrowReturnsUids ==
    (last.op = "grow" /\ last.err = "none") =>
        /\ ~last.ret.none
        /\ last.ret.v = NewUidsOfLast
        /\ \A i \in 1..Len(last.ret.v) :
              /\ MapPos(last.ret.v[i]).err = "none"
              /\ MapPos(last.ret.v[i]).v >= Count - last.n
              /\ MapPos(last.ret.v[i]).v < Count

\* C14: a grow that fails part-way (a column's fill policy raises or hands
\* back values of the wrong length) leaves the population exactly as it was
\* before the call: the identity map, the count and every column's length
\* and contents are unchanged.
C14_GrowAllOrNothing ==
    [][(last'.op = "grow" /\ last'.err # "none") =>
          /\ uid_map' = uid_map
          /\ uids' = uids
          /\ states' = states]_vars

C16_NeverIssuedNotFound ==
    initialized =>
        \A u \in Issued..(MaxUids + 1) :
            \A c \in DOMAIN states : \A g \in Rows(c) :
                /\ GetCol(c, g, u) = IndexError
                /\ GetUids(states[c], uid_map, g, << u >>) = IndexError
                /\ \A w \in live :
                      GetUids(states[c], uid_map, g, << w, u >>) = IndexError

\* the arrays of one or two live identifiers, and the arrays of values
LiveKeys == {q \in UNION {[1..k -> live] : k \in 1..MaxReq} :
                \A i \in 1..Len(q) : \A j \in 1..Len(q) : i # j => q[i] # q[j]}
ValueArrays == UNION {[1..k -> 0..MaxVal] : k \in 0..(MaxReq + 1)}

\* C17: set(uid_array, value_array) raises a dimension-mismatch error and
\* writes nothing whenever the length of the value array differs from the
\* number of identifiers, shorter or longer.
C17_SetLengthMismatch ==
    \A c \in DOMAIN states : states[c].kind = "star" =>
        \A keys \in LiveKeys : \A value \in ValueArrays :
            Len(value) # Len(keys) =>
                LET r == SetUidsMultiple(states[c], uid_map, keys, value)
                IN  /\ r.err = "ValueError"
                    /\ r.st = states[c]

\* the boolean arrays of up to MaxUids + 1 entries
Masks == UNION {[1..k -> BOOLEAN] : k \in 0..(MaxUids + 1)}

\* C18: a get or a set with a boolean mask whose length differs from the
\* count, shorter or longer, raises a dimension-mismatch error and changes
\* nothing; a mask of the right length selects the positions where it is
\* true.
C18_MaskLength ==
    \A c \in DOMAIN states :
      (initialized /\ Count >= 1 /\ states[c].kind = "star") =>
        \A mask \in Masks :
            LET vals == Values(states[c])[1]
                got  == GetMask(states[c], uids, mask)
                put  == SetMask(states[c], mask, 0)
                sel  == SelectSeq([i \in 1..Count |-> i], LAMBDA i : mask[i])
            IN  IF Len(mask) # Count
                THEN got.err # "none" /\ put.err # "none" /\ put.st = states[c]
                ELSE /\ got = Ok([j \in 1..Len(sel) |-> vals[sel[j]]])
                     /\ put.err = "none"
                     /\ Values(put.st)[1] =
                           [i \in 1..Count |-> IF mask[i] THEN 0 ELSE vals[i]]

\* the slices with a start and a stop among None and the identifiers, and a
\* step among None, 1 and 2
SliceBounds == {<<>>} \cup {<< u >> : u \in 0..(MaxUids - 1)}
Slices == {Slice(a, b, c) : a \in SliceBounds, b \in SliceBounds,
                            c \in {<<>>, << 1 >>, << 2 >>}}

\* C19: a get and a set with any slice that has a start, a stop or a step
\* raise an error and leave the column unchanged; the full slice addresses
\* every live agent.
C19_PartialSliceRejected ==
    initialized =>
        \A c \in DOMAIN states :
            /\ \A g \in Rows(c) :
                  GetSlice(states[c], uid_map, g, FullSlice) =
                      Ok(Values(states[c])[g + 1])
            /\ \A sl \in Slices \ {FullSlice} :
                  /\ \A g \in Rows(c) :
                        GetSlice(states[c], uid_map, g, sl).err # "none"
                  /\ Len(states[c].data) = 1 =>
                        /\ SetSlice(states[c], uid_map, sl, 0).err # "none"
                        /\ SetSlice(states[c], uid_map, sl, 0).st = states[c]

\* C20: resizing a registered column other than through the population's
\* grow and remove (the column's own grow called directly) raises an error
\* and leaves the column's length equal to the count (stated for a direct
\* grow of one agent or more).
C20_DirectResizeRaises ==
    [][(last'.op = "State.grow" /\ last'.n >= 1) =>
          /\ last'.err # "none"
          /\ states' = states
          /\ \A c \in DOMAIN states : states'[c].n = Count']_vars

\* the agents a boolean mask over positions selects
MaskUids(mask) == {Values(uids)[1][i] : i \in {j \in 1..Len(mask) : mask[j]}}
\* the masks of the length of the count
CountMasks == [1..Count -> BOOLEAN]

\* the set r raised nothing and left a column that holds v for the agents of
\* sel and the value of before for every other agent
WroteExactly(c, r, sel, v) ==
    /\ r.err = "none"
    /\ r.st.n = states[c].n
    /\ Cap(r.st) = Cap(states[c])
    /\ \A u \in live :
          Get(r.st, uid_map, 0, u) = IF u \in sel THEN Ok(v) ELSE GetCol(c, 0, u)

\* C21: set(key, v) with a scalar v writes v to exactly the agents selected
\* by key (a uid, a uid array, a boolean mask over positions, the full
\* slice) and leaves every other agent's value unchanged, also after a
\* compaction, when positions and identifiers differ.
C21_SetWritesExactly ==
    initialized =>
        \A c \in DOMAIN states : Len(states[c].data) = 1 =>
            \A v \in 0..MaxVal :
                /\ \A u \in live :
                      WroteExactly(c, SetItem(states[c], uid_map, 0, u, v), {u}, v)
                /\ \A keys \in LiveKeys :
                      WroteExactly(c, SetUids(states[c], uid_map, 0, keys, v),
                                   Range(keys), v)
                /\ states[c].kind = "star" => \A mask \in CountMasks :
                      WroteExactly(c, SetMask(states[c], mask, v), MaskUids(mask), v)
                /\ WroteExactly(c, SetSlice(states[c], uid_map, FullSlice, v), live, v)

\* a starsim column after a compaction has moved an agent, with agents that
\* hold different values, one of them just written
C21_Witness ==
    /\ last.op = "set"
    /\ "s" \in DOMAIN states
    /\ gone # {}
    /\ \E u \in live : MapPos(u).v # u
    /\ \E u \in live : \E w \in live : GetCol("s", 0, u) # GetCol("s", 0, w)

\* C22: on a 2-D column a get and a set with a key (g, k) address only row g
\* at the agents selected by k (a uid, a uid array, the full slice); a set
\* leaves every other row and every unselected agent unchanged, and the
\* number of rows never changes.
C22_TwoDimRowOnly ==
    initialized =>
        \A c \in DOMAIN states : Len(states[c].data) = YShape =>
            \A g \in Rows(c) : \A v \in 0..MaxVal :
                /\ GetSlice(states[c], uid_map, g, FullSlice) =
                      Ok(Values(states[c])[g + 1])
                /\ \A u \in live :
                      LET r == SetItem(states[c], uid_map, g, u, v)
                      IN  /\ r.err = "none"
                          /\ Len(r.st.data) = YShape
                          /\ \A h \in Rows(c) : \A w \in live :
                                Get(r.st, uid_map, h, w) =
                                    IF h = g /\ w = u THEN Ok(v)
                                    ELSE GetCol(c, h, w)
                /\ LET r == ProtoSetSlice2D(states[c], uid_map, g, FullSlice, v)
                   IN  /\ r.err = "none"
                       /\ Len(r.st.data) = YShape
                       /\ \A h \in Rows(c) : \A w \in live :
                             Get(r.st, uid_map, h, w) =
                                 IF h = g THEN Ok(v) ELSE GetCol(c, h, w)

\* C23: DynamicView.grow(k) reallocates only when n + k exceeds the capacity,
\* and then enlarges the buffer by exactly max(k, capacity div 2); otherwise
\* the buffer is left as it is; _trim and a write keep the capacity, so the
\* capacity never gets smaller.
C23_GrowCapacity ==
    [][LET st == states["s"]
           k  == last'.n
       IN  /\ Cap(states'["s"]) >= Cap(st)
           /\ last'.op = "DynamicView.grow" =>
                 IF st.n + k > Cap(st)
                 THEN /\ Cap(states'["s"]) = Cap(st) + Max(k, Cap(st) \div 2)
                      /\ Head_(states'["s"].data[1], Cap(st)) = st.data[1]
                 ELSE states'["s"].data = st.data
           /\ last'.op # "DynamicView.grow" => Cap(states'["s"]) = Cap(st)]_vars
\* a grow(1) that had to reallocate a buffer of 4 and enlarged it by 2
C23_Witness ==
    /\ last.op = "DynamicView.grow"
    /\ last.n = 1
    /\ "s" \in DOMAIN states
    /\ states["s"].kind = "star"
    /\ states["s"].n = 5
    /\ Cap(states["s"]) = 6

\* C24: r = s op t (&, +, <) is indexed by the same identifiers, holds
\* r[u] = s[u] op t[u] for every live u and changes neither operand;
\* s op= t gives s[u] the value s[u] op t[u] for every live u, changes nothing
\* else (not t, not the count, the capacity or the tail of the buffer of s)
\* and returns s itself.
C24_Elementwise ==
    [][\A op \in UfuncOps :
          /\ last'.op = op =>
                /\ UNCHANGED <<states, uid_map, uids>>
                /\ ~last'.ret.self
                /\ Len(last'.ret.v) = Count
                /\ \A u \in live :
                      NpGet(last'.ret.v, MapPos(u).v) =
                          Ok(Op(op, GetCol("s", 0, u).v, GetCol("t", 0, u).v))
          /\ op \in InPlaceOps /\ last'.op = InPlaceName(op) =>
                /\ UNCHANGED <<uid_map, uids>>
                /\ states'["t"] = states["t"]
                /\ states'["s"].n = states["s"].n
                /\ Cap(states'["s"]) = Cap(states["s"])
                /\ \A i \in (states["s"].n + 1)..Cap(states["s"]) :
                      states'["s"].data[1][i] = states["s"].data[1][i]
                /\ last'.ret.self
                /\ last'.ret.v = Values(states'["s"])[1]
                /\ \A u \in live :
                      Get(states'["s"], uid_map, 0, u) =
                          Ok(Op(op, GetCol("s", 0, u).v, GetCol("t", 0, u).v))]_vars
\* s += t after a remove has moved an agent: an agent away from the position
\* of its identifier got 0 + 1, another agent kept its value
C24_Witness ==
    /\ last.op = "iadd"
    /\ gone # {}
    /\ "t" \in DOMAIN states
    /\ \E u \in live, w \in live :
          /\ MapPos(u).v # u
          /\ GetCol("s", 0, u) = Ok(1)
          /\ GetCol("t", 0, u) = Ok(1)
          /\ GetCol("t", 0, w) = Ok(0)

\* the sum of the values the live agents have in column c
RECURSIVE LiveSum(_, _)
LiveSum(c, S) ==
    IF S = {} THEN 0
    ELSE LET u == CHOOSE w \in S : TRUE
         IN  GetCol(c, 0, u).v + LiveSum(c, S \ {u})

\* C25: in every state reached by initialize, grow, remove, set and the
\* elementwise operations, sum, any, all and count_nonzero of a starsim State
\* are the reductions over the values of exactly the live agents.
C25_ReduceLive ==
    initialized =>
        \A c \in DOMAIN states : states[c].kind = "star" =>
            /\ \A u \in live : GetCol(c, 0, u).err = "none"
            /\ FusedSum(states[c]) = LiveSum(c, live)
            /\ FusedAny(states[c]) = (\E u \in live : GetCol(c, 0, u).v # 0)
            /\ FusedAll(states[c]) = (\A u \in live : GetCol(c, 0, u).v # 0)
            /\ FusedCountNonzero(states[c]) =
                  Cardinality({u \in live : GetCol(c, 0, u).v # 0})
\* after a remove: an agent is gone, two agents with nonzero values are left
\* and the buffer is longer than the view
C25_Witness ==
    /\ last.op = "remove"
    /\ gone # {}
    /\ Cardinality(live) = 2
    /\ "s" \in DOMAIN states
    /\ states["s"].kind = "star"
    /\ Cap(states["s"]) > states["s"].n
    /\ FusedAll(states["s"])
    /\ FusedSum(states["s"]) = 2

\* the fields of the Sim a step may change
SimCore(s) == [ti |-> s.ti, npts |-> s.npts, complete |-> s.complete,
               results_ready |-> s.results_ready, initialized |-> s.initialized]

\* C28: Sim.step on an initialized sim that is not complete does the
\* demographic, network and module updates once each, adds exactly 1 to ti
\* and leaves complete true exactly when the new ti is npts; on a complete
\* sim it raises AlreadyRunError and changes nothing of the sim or the people.
C28_Step ==
    [][last'.op = "step" =>
          IF sim.complete
          THEN last'.err = "AlreadyRunError" /\ UNCHANGED <<sim, ppl>>
          ELSE sim.initialized =>
                 /\ last'.err = "none"
                 /\ sim'.calls = [sim.calls EXCEPT !.demographics = @ + 1,
                                                   !.networks = @ + 1,
                                                   !.modules = @ + 1]
                 /\ sim'.ti = sim.ti + 1
                 /\ sim'.complete = (sim'.ti = sim'.npts)
                 /\ SimCore(sim') = [SimCore(sim) EXCEPT !.ti = sim'.ti,
                                         !.complete = sim'.complete]]_vars
\* the step that ended a sim of more than one time point
C28_Witness ==
    /\ sim.built
    /\ last.op = "step"
    /\ last.err = "none"
    /\ sim.complete
    /\ sim.ti = sim.npts
    /\ sim.npts >= 2
    /\ ~sim.results_ready

\* C29: Sim.run(until) raises AlreadyRunError and executes no step when
\* until > npts, or ti >= until, or the sim is complete (ti, npts and
\* complete as they are after the initialization run does on a sim that was
\* not initialized).
C29_RunRaises ==
    [][last'.op = "run" =>
          LET was   == sim.initialized
              ti    == IF was THEN sim.ti ELSE 0
              npts  == IF was THEN sim.npts ELSE sim.pars.npts
              compl == was /\ sim.complete
              calls == IF was THEN sim.calls ELSE ZeroCalls
          IN  (last'.n > npts \/ ti >= last'.n \/ compl) =>
                 /\ last'.err = "AlreadyRunError"
                 /\ sim'.calls = calls
                 /\ sim'.ti = ti
                 /\ sim'.complete = compl
                 /\ ppl.built => ppl' = ppl]_vars
\* a run to a time the sim has already passed
C29_Witness ==
    /\ sim.built
    /\ last.op = "run"
    /\ last.err = "AlreadyRunError"
    /\ ~sim.complete
    /\ sim.ti >= 2
    /\ last.n >= 1
    /\ last.n <= sim.ti
    /\ last.n <= sim.npts

\* C30: when Sim.run reaches the end of the simulation, complete is set,
\* finalize has been called once, results_ready is true and ti is npts - 1;
\* when run stops at until < npts, complete and results_ready are false and
\* ti is until.  (The loop was not ended by the time limit or the stopping
\* function, and the checks of run did not raise.)
C30_RunEnds ==
    [][(/\ last'.op = "run"
        /\ last'.uids = <<>>
        /\ ~(sim.initialized /\ sim.complete)
        /\ (IF sim.initialized THEN sim.ti ELSE 0) < last'.n
        /\ last'.n <= sim'.npts) =>
          IF last'.n = sim'.npts
          THEN /\ last'.err = "none"
               /\ sim'.complete
               /\ sim'.results_ready
               /\ sim'.ti = sim'.npts - 1
               /\ sim'.calls.finalize =
                     (IF sim.initialized THEN sim.calls.finalize ELSE 0) + 1
          ELSE /\ last'.err = "none"
               /\ ~sim'.complete
               /\ ~sim'.results_ready
               /\ sim'.ti = last'.n]_vars

\* C27: the length of the identity map is the number of identifiers issued
\* so far (they are 0 .. length - 1) and never gets smaller; after initialize
\* and every grow and remove the entry of an issued identifier is the
\* sentinel exactly when the identifier is not live.
C27_MapLength ==
    /\ [](initialized =>
            /\ Issued = Cardinality(ever)
            /\ ever = 0..(Issued - 1)
            /\ \A u \in ever :
                  /\ MapPos(u).err = "none"
                  /\ (MapPos(u).v = INT_NAN) <=> (u \notin live))
    /\ [][Issued' >= Issued]_vars
\* a grow after a remove: the removed identifier is still at the sentinel and
\* the new identifiers are mapped
C27_Witness ==
    /\ last.op = "grow"
    /\ last.n >= 1
    /\ gone # {}
    /\ live # {}
    /\ Issued = MaxUids
    /\ \E u \in gone : MapPos(u) = Ok(INT_NAN)

\* C26: rvs(m) returns m samples and rvs(uids) one sample for each
\* identifier; right after a reset (or the initialization) the first sample
\* of rvs(m), for any m, and of rvs(uids) with identifier 0 first is the
\* sample rvs(1) gives after a reset.
C26_ResetDeterminism ==
    [][/\ last'.op = "rvs" => Len(last'.ret.v) = last'.n
       /\ last'.op = "rvs_uids" => Len(last'.ret.v) = Len(last'.uids)
       /\ (/\ last.op \in {"reset", "new"}
           /\ \/ last'.op = "rvs"
              \/ last'.op = "rvs_uids" /\ last'.uids[1] = 0) =>
             last'.ret.v[1] = RvsCount(DistNew(dist.stream), 1).ret[1]]_vars
\* rvs(uids) with uids = [0, 2] after draws and a reset, on a stream whose
\* first two numbers differ
C26_Witness ==
    /\ dist.built
    /\ last.op = "rvs_uids"
    /\ last.uids = << 0, 2 >>
    /\ dist.pos = 3
    /\ dist.stream[1] # dist.stream[2]
    /\ last.ret.v = << dist.stream[1], dist.stream[3] >>

\* C31: Sim.finalize on a sim whose results are ready raises AlreadyRunError
\* and leaves the sim (ti, results_ready and the rest) as it was; since the
\* last initialize a finalization has taken effect at most once.
C31_FinalizeOnce ==
    /\ [](sim.built => sim.calls.finalize <= 1)
    /\ [][(last'.op = "finalize" /\ sim.results_ready) =>
             (last'.err = "AlreadyRunError" /\ UNCHANGED <<sim, ppl>>)]_vars
\* a second finalize on a sim that a run has completed and finalized
C31_Witness ==
    /\ sim.built
    /\ last.op = "finalize"
    /\ last.err = "AlreadyRunError"
    /\ sim.complete
    /\ sim.calls.finalize = 1
    /\ sim.ti = sim.npts - 1

\* C32: every timestep runs its phases in one order, one after the other: the
\* demographic update, then the network update, then the module update, all
\* at the same ti, and only then ti is advanced by one.  The log since
\* initialize is a sequence of such blocks of four.
C32_PhaseOrder ==
    sim.built =>
        /\ Len(sim.log) % 4 = 0
        /\ \A b \in 0..((Len(sim.log) \div 4) - 1) :
              LET e == [k \in 1..4 |-> sim.log[4 * b + k]]
              IN  /\ e[1].phase = "demographics"
                  /\ e[2].phase = "networks"
                  /\ e[3].phase = "modules"
                  /\ e[4].phase = "ti"
                  /\ e[2].ti = e[1].ti
                  /\ e[3].ti = e[1].ti
                  /\ e[4].ti = e[1].ti + 1
\* a sim that a run has taken through two timesteps or more
C32_Witness ==
    /\ sim.built
    /\ last.op = "run"
    /\ last.err = "none"
    /\ Len(sim.log) >= 8
    /\ sim.log[5].phase = "demographics"
    /\ sim.log[5].ti = 1

\* C33: a negative integer is never an identifier: a get and a set with a
\* negative key, scalar or inside a uid array, raise the not-found error,
\* return no value and write nothing; they never address an agent by
\* counting from the end of the identity map.
C33_NegativeKeyNotFound ==
    initialized =>
        \A k \in (-Issued)..(-1) :
            \A c \in {d \in DOMAIN states : states[d].kind = "star"} :
              \A g \in Rows(c) :
                /\ GetCol(c, g, k) = IndexError
                /\ GetUids(states[c], uid_map, g, << k >>) = IndexError
                /\ \A v \in 0..MaxVal :
                      /\ SetItem(states[c], uid_map, g, k, v) =
                            [err |-> "IndexError", st |-> states[c]]
                      /\ SetUids(states[c], uid_map, g, << k >>, v) =
                            [err |-> "IndexError", st |-> states[c]]

\* C34: when set(uid_array, value) raises because an identifier of the
\* array is not live (removed or never issued), no element of the column
\* has been modified: the writes for the identifiers before it are not
\* applied.
C34_SetAllOrNothing ==
    initialized =>
        \A c \in {d \in DOMAIN states : states[d].kind = "star"} :
            \A w \in live : \A u \in (0..MaxUids) \ live : \A v \in 0..MaxVal :
                /\ SetUids(states[c], uid_map, 0, << w, u >>, v) =
                      [err |-> "IndexError", st |-> states[c]]
                /\ SetUidsMultiple(states[c], uid_map, << w, u >>, << v, v >>) =
                      [err |-> "IndexError", st |-> states[c]]

\* C35: for every buffer, after any sequence of grow and trim, the live
\* length is between 0 and the capacity, and the values the column exposes
\* are exactly the first live-length elements of the current allocation
\* (stated for the arrays of the People of stisim, whose live length is _n
\* and whose exposed values are the views _map_arrays binds).
C35_ViewIsLivePrefix ==
    ppl.built =>
        \A key \in DOMAIN ppl.data :
            /\ 0 <= ppl.n
            /\ ppl.n <= Len(ppl.data[key])
            /\ PplView(ppl, key) = SubSeq(ppl.data[key], 1, ppl.n)

\* C38: in the SIR module infect is applied only to agents that are
\* susceptible when it is called and at most once to an agent in one
\* make_new_cases, so no agent has a recovery time and a death time both
\* scheduled, and every infection is counted once in new_infections.
C38_InfectOnce ==
    (mod.built /\ mod.kind = "sir") =>
        /\ \A p \in 1..SirAgents :
              /\ mod.n_infect[p] <= 1
              /\ ~(mod.t_recovered[p] # NaN /\ mod.t_dead[p] # NaN)
        /\ SeqSum(mod.new_infections) =
              Cardinality({p \in 1..SirAgents : ~mod.susceptible[p]})

\* C39: in the Syphilis module an agent that is in secondary leaves it only
\* when the time scheduled at its entry has come and along the path drawn
\* at its entry: to latent_temp on the temporary path, to latent_long on
\* the long path and never to latent_temp; that holds too for an agent that
\* leaves in the update_pre in which it entered.
C39_SecondaryPath ==
    [][(mod.built /\ mod.kind = "syphilis") =>
          \A p \in 1..SyphAgents :
              ((mod.secondary[p] \/ mod'.entered[p] = mod.ti)
                  /\ ~mod'.secondary[p]) =>
                  \/ /\ mod'.path[p] = "temp"
                     /\ mod'.latent_temp[p]
                     /\ ~mod'.latent_long[p]
                     /\ mod'.ti_latent_temp[p] <= mod.ti
                  \/ /\ mod'.path[p] = "long"
                     /\ ~mod'.latent_temp[p]
                     /\ mod'.latent_long[p] \/ mod'.tertiary[p]
                     /\ mod'.ti_latent_long[p] <= mod.ti]_vars

\* C40: in the Syphilis module every ti_* of every agent is INT_NAN or a
\* time index that is not earlier than the step at which it was scheduled,
\* and no ti_* is computed by adding a duration to INT_NAN.
C40_TiScheduled ==
    (mod.built /\ mod.kind = "syphilis") =>
        /\ ~mod.nan_sum
        /\ \A name \in TiStates : \A p \in 1..SyphAgents :
              \/ mod[name][p] = INT_NAN
              \/ /\ mod.sched[name][p] <= mod[name][p]
                 /\ mod[name][p] < INT_NAN

\* the time indices stepped since initialize, in the order of the steps
SteppedAt(i) == sim.log[4 * (i - 1) + 1].ti
NSteps == Len(sim.log) \div 4

\* C36: between two initialize calls, under step, run and finalize in any
\* order, ti is in 0..npts, and each time index stepped is in 0..npts-1 and
\* is stepped at most once.
C36_TiInRange ==
    (sim.built /\ sim.initialized) =>
        /\ sim.ti \in 0..sim.npts
        /\ \A i \in 1..NSteps : SteppedAt(i) \in 0..(sim.npts - 1)
        /\ \A i \in 1..NSteps : \A j \in 1..NSteps :
              i # j => SteppedAt(i) # SteppedAt(j)

\* C37: a Sim.run(until) that its checks let through, with no time limit and
\* no stopping function, ends after exactly until - ti steps, with ti the
\* index when run is called (0 on a sim run initializes) and until = npts
\* when it is not given.
C37_RunSteps ==
    [][LET was  == sim.initialized
           ti   == IF was THEN sim.ti ELSE 0
           npts == IF was THEN sim.npts ELSE sim.pars.npts
           done == IF was THEN sim.calls.modules ELSE 0
       IN  (/\ last'.op = "run"
            /\ last'.uids = <<>>
            /\ ~(was /\ sim.complete)
            /\ ti < last'.n
            /\ last'.n <= npts) =>
              /\ sim'.calls.modules - done = last'.n - ti
              /\ sim'.calls.demographics = sim'.calls.modules
              /\ sim'.calls.networks = sim'.calls.modules]_vars
\* a run from ti = 1 to until = 3 = npts: two steps
C37_Witness ==
    /\ sim.built
    /\ last.op = "run"
    /\ last.uids = <<>>
    /\ last.err = "none"
    /\ last.n = 3
    /\ sim.calls.modules = 3
    /\ sim.complete
    /\ Len(sim.log) = 12
    /\ sim.calls.finalize = 1

====
